---------------------------- MODULE Spec2Model ----------------------------
(***************************************************************************)
(* State-machine model of the server-side game engine                      *)
(* (src/server/gameLogic.js, class Game) together with the Node event      *)
(* loop that runs its timers and the socket handlers of src/server.js      *)
(* that call it.                                                           *)
(*                                                                         *)
(* Time is kept relative: turnExpiresAt holds turnExpiresAt - Date.now(),  *)
(* and every pending setTimeout holds the delay that is left.              *)
(***************************************************************************)
EXTENDS Integers, Sequences, FiniteSets, TLC

(***************************************************************************)
(* Bounds of the model.  The deck is createDeck's deck restricted to the   *)
(* first NumColors colours, the first NumNumbers number values and         *)
(* WildCopies copies of each wild card; the source has 4, 10 and 4.        *)
(***************************************************************************)
NumColors == 2
NumNumbers == 1
WildCopies == 1
CopiesPerValue == 1
cardsPerPlayer == 2
MaxPlayers == 3
RandomSteps == 2
MaxUndefined == 1
MaxDeferred == 2
MaxSockets == 4
MaxMoves == 5
MaxMovesTwoSeats == 8
MaxHand == 3
MaxMovesRules == 1
MaxMovesAnyFirstCard == 3

(***************************************************************************)
(* Program constants.                                                      *)
(***************************************************************************)
turnTimeLimit == 15000
dealingAnimationDelay == 5000
ANIMATION_DURATION == 1200

NULL == -1

NoCard == [color |-> "null", value |-> "null"]

(***************************************************************************)
(* Cards.  `undefined' is what Array.prototype.pop returns on an empty     *)
(* deck; reading a property of it throws a TypeError.                      *)
(***************************************************************************)
Card(color, value) == [color |-> color, value |-> value]

undefined == [color |-> "undefined", value |-> "undefined"]

allColors == <<"red", "green", "blue", "yellow">>

numberValues == <<"0", "1", "2", "3", "4", "5", "6", "7", "8", "9">>

colors == SubSeq(allColors, 1, NumColors)

values == SubSeq(numberValues, 1, NumNumbers) \o <<"skip", "reverse", "draw2">>

Range(s) == {s[i] : i \in 1..Len(s)}

RECURSIVE Concat(_)
Concat(ss) == IF ss = <<>> THEN <<>> ELSE Head(ss) \o Concat(Tail(ss))

RECURSIVE SumSeq(_)
SumSeq(s) == IF s = <<>> THEN 0 ELSE Head(s) + SumSeq(Tail(s))

createDeck ==
    LET count(value) == IF value = "0" THEN 1 ELSE CopiesPerValue
        ofValue(color, value) == [i \in 1..count(value) |-> Card(color, value)]
        ofColor(color) == Concat([v \in 1..Len(values) |-> ofValue(color, values[v])])
        colored == Concat([c \in 1..Len(colors) |-> ofColor(colors[c])])
        wilds == Concat([i \in 1..WildCopies |->
                            <<Card("wild", "wild"), Card("wild", "draw4")>>])
    IN  colored \o wilds

(***************************************************************************)
(* shuffleDeck: Fisher-Yates as written.  Math.random() is a value r / R   *)
(* with r in 0..R-1 (R = RandomSteps), the same at every call of one       *)
(* shuffle; floor(random * (i + 1)) is then (r * (i + 1)) \div R.          *)
(***************************************************************************)
Randoms == 0..(RandomSteps - 1)

randomIndex(r, n) == (r * n) \div RandomSteps

Swap(s, i, j) == [s EXCEPT ![i] = s[j], ![j] = s[i]]

RECURSIVE fisherYates(_, _, _)
fisherYates(shuffled, i, r) ==
    \* i is the 0-based loop index of the source; sequences are 1-based
    IF i < 1 THEN shuffled
    ELSE fisherYates(Swap(shuffled, i + 1, randomIndex(r, i + 1) + 1), i - 1, r)

shuffleDeck(deck, r) == fisherYates(deck, Len(deck) - 1, r)


(***************************************************************************)
(* Rule validator.  Array.prototype.some visits the elements in order and  *)
(* stops at the first hit; visiting `undefined' throws (card.color).       *)
(* The ...Throws operators say when the call throws; the operator of the   *)
(* source's name gives the value it returns when it does not.              *)
(***************************************************************************)
isWildDraw4(card) == card.color = "wild" /\ card.value = "draw4"

matchesColor(handCard, currentColor) ==
    handCard.color = currentColor /\ handCard.color # "wild"

hasMatchingColor(playerHand, currentColor) ==
    \E i \in 1..Len(playerHand) : matchesColor(playerHand[i], currentColor)

hasMatchingColorThrows(playerHand, currentColor) ==
    \E i \in 1..Len(playerHand) :
        /\ playerHand[i] = undefined
        /\ \A j \in 1..(i - 1) : ~matchesColor(playerHand[j], currentColor)

\* a validator that accepts a wild draw four whatever the hand holds
canPlayCardIgnoresHand(card, topCard, currentColor, playerHand) ==
    IF card.color = "wild" THEN TRUE
    ELSE IF card.color = currentColor THEN TRUE
    ELSE card.value = topCard.value

canPlayCardThrows(card, topCard, currentColor, playerHand) ==
    \/ card = undefined
    \/ isWildDraw4(card) /\ hasMatchingColorThrows(playerHand, currentColor)

canPlayCard(card, topCard, currentColor, playerHand) ==
    IF isWildDraw4(card)
    THEN ~(Len(playerHand) > 0 /\ hasMatchingColor(playerHand, currentColor))
    ELSE IF card.color = "wild" THEN TRUE
    ELSE IF card.color = currentColor THEN TRUE
    ELSE IF card.value = topCard.value /\ card.color # "wild" THEN TRUE
    ELSE FALSE

hasPlayableCardThrows(playerHand, topCard, currentColor) ==
    \E i \in 1..Len(playerHand) :
        /\ canPlayCardThrows(playerHand[i], topCard, currentColor, playerHand)
        /\ \A j \in 1..(i - 1) :
              /\ ~canPlayCardThrows(playerHand[j], topCard, currentColor, playerHand)
              /\ ~canPlayCard(playerHand[j], topCard, currentColor, playerHand)

hasPlayableCard(playerHand, topCard, currentColor) ==
    IF Len(playerHand) = 0 THEN FALSE
    ELSE \E i \in 1..Len(playerHand) :
            canPlayCard(playerHand[i], topCard, currentColor, playerHand)

(***************************************************************************)
(* Deck operations on a gameState record.  Seats are 0-based as in the     *)
(* source; players[seat + 1] is the seat's player.                         *)
(***************************************************************************)
\* a reshuffle that leaves the top card among the cards it shuffles
reshuffleDeckWithTopCard(gameState, r) ==
    IF Len(gameState.discardPile) <= 1 THEN gameState
    ELSE [gameState EXCEPT
            !.deck = shuffleDeck(gameState.discardPile, r),
            !.discardPile = <<gameState.discardPile[Len(gameState.discardPile)]>>]

reshuffleDeck(gameState, r) ==
    IF Len(gameState.discardPile) <= 1 THEN gameState
    ELSE LET n == Len(gameState.discardPile)
             topCard == gameState.discardPile[n]
         IN  [gameState EXCEPT
                !.deck = shuffleDeck(SubSeq(gameState.discardPile, 1, n - 1), r),
                !.discardPile = <<topCard>>]

\* a draw that reads the last card of the deck without removing it
drawIntoKeepsDeck(gameState, seat, r) ==
    LET g == IF Len(gameState.deck) = 0 THEN reshuffleDeck(gameState, r) ELSE gameState
        n == Len(g.deck)
    IN  [g EXCEPT !.players[seat + 1].hand =
                     Append(@, IF n = 0 THEN undefined ELSE g.deck[n])]

\* if (deck.length === 0) reshuffleDeck(gameState); hand.push(deck.pop())
drawInto(gameState, seat, r) ==
    LET g == IF Len(gameState.deck) = 0 THEN reshuffleDeck(gameState, r) ELSE gameState
        n == Len(g.deck)
        drawnCard == IF n = 0 THEN undefined ELSE g.deck[n]
    IN  [g EXCEPT !.deck = IF n = 0 THEN <<>> ELSE SubSeq(g.deck, 1, n - 1),
                  !.players[seat + 1].hand = Append(@, drawnCard)]

RECURSIVE drawManyInto(_, _, _, _)
drawManyInto(gameState, seat, amount, r) ==
    IF amount = 0 THEN gameState
    ELSE drawManyInto(drawInto(gameState, seat, r), seat, amount - 1, r)

\* JavaScript's %: the result has the sign of the dividend
jsMod(a, n) == IF a >= 0 THEN a % n ELSE 0 - ((0 - a) % n)

\* nextTurn without "+ players.length": JavaScript's % leaves -1 at seat 0
nextTurnNoWrap(gameState) ==
    [gameState EXCEPT
        !.currentPlayerIndex =
            jsMod(gameState.currentPlayerIndex + gameState.direction,
                  Len(gameState.players)),
        !.hasDrawnPlayableCard = FALSE,
        !.hasPlayedCardThisTurn = FALSE,
        !.waitingForUno = FALSE,
        !.players = [i \in 1..Len(gameState.players) |->
                        [gameState.players[i] EXCEPT !.hasUno = FALSE]]]

\* a nextTurn that moves on and leaves the flags of the turn as they are
nextTurnKeepsFlags(gameState) ==
    [gameState EXCEPT
        !.currentPlayerIndex =
            (gameState.currentPlayerIndex + gameState.direction
                + Len(gameState.players)) % Len(gameState.players)]

nextTurn(gameState) ==
    [gameState EXCEPT
        !.currentPlayerIndex =
            (gameState.currentPlayerIndex + gameState.direction
                + Len(gameState.players)) % Len(gameState.players),
        !.hasDrawnPlayableCard = FALSE,
        !.hasPlayedCardThisTurn = FALSE,
        !.waitingForUno = FALSE,
        !.players = [i \in 1..Len(gameState.players) |->
                        [gameState.players[i] EXCEPT !.hasUno = FALSE]]]

(***************************************************************************)
(* The Game object (`this').  A record                                     *)
(*   gameState     the source's this.gameState                             *)
(*   turnTimer     delay left of the pending handleTurnTimeout callback,   *)
(*                 NULL when this.turnTimer holds no pending timeout       *)
(*   turnExpiresAt this.turnExpiresAt - Date.now(), or NULL                *)
(*   timeouts      delays left of the pending setTimeout callbacks that    *)
(*                 call startTurnTimer (the deferred re-arms), ascending   *)
(*   crashed       an uncaught TypeError has ended the process             *)
(*   hooks         the hooks the current call or callback has invoked so   *)
(*                 far, in order; empty when it starts                     *)
(***************************************************************************)
RECURSIVE insertSorted(_, _)
insertSorted(s, d) ==
    IF s = <<>> THEN <<d>>
    ELSE IF d <= Head(s) THEN <<d>> \o s
    ELSE <<Head(s)>> \o insertSorted(Tail(s), d)

setTimeout(this, delay) ==
    [this EXCEPT !.timeouts = insertSorted(@, delay)]

\* a clearTurnTimer that forgets the deadline but leaves the callback pending
clearTurnTimerKeepsCallback(this) == [this EXCEPT !.turnExpiresAt = NULL]

\* a clearTurnTimer that cancels nothing
clearTurnTimerKeepsDeadline(this) == this

clearTurnTimer(this) ==
    [this EXCEPT !.turnTimer = NULL, !.turnExpiresAt = NULL]

\* startTurnTimerWithDuration with the status test written as an assignment
startTurnTimerAssignsStatus(this, duration) ==
    LET cleared == clearTurnTimer(this)
        gameState == [cleared.gameState EXCEPT !.status = "playing"]
    IN  IF Len(gameState.players) = 0 THEN cleared
        ELSE IF gameState.currentPlayerIndex < 0
                \/ gameState.currentPlayerIndex >= Len(gameState.players) THEN cleared
        ELSE [cleared EXCEPT !.gameState = gameState,
                             !.turnExpiresAt = duration, !.turnTimer = duration]

\* this.onXCallback(...) of a registered hook; the turn-started hook is
\* given expiresAt: this.turnExpiresAt
invokeHook(this, hook, playerIndex) ==
    [this EXCEPT !.hooks =
        Append(@, [hook |-> hook, playerIndex |-> playerIndex,
                   expiresAt |-> IF hook = "onTurnStart"
                                 THEN this.turnExpiresAt ELSE NULL])]

\* a timer start that does not look at the status of the game
startTurnTimerAnyStatus(this, duration) ==
    invokeHook([clearTurnTimer(this) EXCEPT !.turnExpiresAt = duration,
                                            !.turnTimer = duration],
               "onTurnStart", this.gameState.currentPlayerIndex)

startTurnTimerWithDuration(this, duration) ==
    LET cleared == clearTurnTimer(this)
        gameState == cleared.gameState
    IN  IF gameState.status # "playing" THEN cleared
        ELSE IF Len(gameState.players) = 0 THEN cleared
        ELSE IF gameState.currentPlayerIndex < 0
                \/ gameState.currentPlayerIndex >= Len(gameState.players) THEN cleared
        ELSE invokeHook([cleared EXCEPT !.turnExpiresAt = duration,
                                        !.turnTimer = duration],
                        "onTurnStart", gameState.currentPlayerIndex)

startTurnTimer(this) == startTurnTimerWithDuration(this, turnTimeLimit)

(***************************************************************************)
(* handleTurnTimeout.  The three penalties, then nextTurn and the loop     *)
(* over disconnected seats.                                                *)
(***************************************************************************)
RECURSIVE skipDisconnected(_, _)
\* the while loop of handleTurnTimeout; result: [gameState, paused]
skipDisconnected(gameState, currentPlayerIndex) ==
    IF ~gameState.players[gameState.currentPlayerIndex + 1].disconnected
    THEN [gameState |-> gameState, paused |-> FALSE]
    ELSE LET nextIndex == (gameState.currentPlayerIndex + gameState.direction
                              + Len(gameState.players)) % Len(gameState.players)
         IN  IF nextIndex = currentPlayerIndex
             THEN [gameState |-> gameState, paused |-> TRUE]
             ELSE skipDisconnected(
                      [gameState EXCEPT !.currentPlayerIndex = nextIndex],
                      currentPlayerIndex)

timeoutPenalty(gameState, r) ==
    LET currentPlayerIndex == gameState.currentPlayerIndex
        currentPlayer == gameState.players[currentPlayerIndex + 1]
    IN  IF gameState.waitingForUno /\ Len(currentPlayer.hand) = 1
           /\ ~currentPlayer.hasUno
        THEN [drawManyInto(gameState, currentPlayerIndex, 2, r) EXCEPT
                !.players[currentPlayerIndex + 1].hasUno = FALSE,
                !.waitingForUno = FALSE]
        ELSE IF gameState.hasDrawnPlayableCard
        THEN [gameState EXCEPT !.hasDrawnPlayableCard = FALSE]
        ELSE LET g == drawInto(gameState, currentPlayerIndex, r)
             IN  [g EXCEPT
                    !.players[currentPlayerIndex + 1].hasUno =
                        IF Len(g.players[currentPlayerIndex + 1].hand) > 1
                        THEN FALSE ELSE @,
                    !.waitingForUno = FALSE]

\* the race guard left out
timerAlreadyClearedUnchecked(this) == FALSE

\* if (this.turnExpiresAt === null): the timer was already cleared
timerAlreadyCleared(this) == this.turnExpiresAt = NULL

handleTurnTimeout(this, r) ==
    IF this.gameState.status # "playing" THEN this
    ELSE IF timerAlreadyCleared(this) THEN this
    ELSE LET currentPlayerIndex == this.gameState.currentPlayerIndex
             punished == [timeoutPenalty(this.gameState, r) EXCEPT
                             !.hasDrawnPlayableCard = FALSE]
             skipped == skipDisconnected(nextTurn(punished), currentPlayerIndex)
         IN  IF skipped.paused
             THEN clearTurnTimer([this EXCEPT !.gameState = skipped.gameState])
             ELSE invokeHook(
                      invokeHook(
                          startTurnTimer([this EXCEPT
                                             !.gameState = skipped.gameState]),
                          "onTurnTimeout", currentPlayerIndex),
                      "onStateChange", NULL)

(***************************************************************************)
(* Construction and the first card.                                        *)
(***************************************************************************)
RECURSIVE dealCards(_, _, _)
\* the two nested loops of dealCards, flattened: step k deals to seat
\* k % playerCount, for k = 0 .. cardsPerPlayer * playerCount - 1
dealCards(gameState, k, playerCount) ==
    IF k >= cardsPerPlayer * playerCount THEN gameState
    ELSE LET n == Len(gameState.deck)
             dealt ==
                 IF n > 0
                 THEN [gameState EXCEPT
                         !.deck = SubSeq(@, 1, n - 1),
                         !.players[(k % playerCount) + 1].hand =
                             Append(@, gameState.deck[n])]
                 ELSE gameState
         IN  dealCards(dealt, k + 1, playerCount)

newPlayer(id, name) ==
    [id |-> id, hand |-> <<>>, name |-> name, originalName |-> <<>>,
     disconnected |-> FALSE, hasUno |-> FALSE]

\* new Game(playerIds, playerNames): r is the constructor's shuffle
newGameWithDeck(playerIds, playerNames, deck) ==
    LET gameState ==
            [players |-> [i \in 1..Len(playerIds) |->
                             newPlayer(playerIds[i], playerNames[i])],
             deck |-> deck,
             discardPile |-> <<>>,
             topCard |-> NoCard,
             currentPlayerIndex |-> 0,
             direction |-> 1,
             status |-> "dealing",
             winner |-> NULL,
             currentColor |-> "null",
             hasDrawnPlayableCard |-> FALSE,
             hasPlayedCardThisTurn |-> FALSE,
             waitingForUno |-> FALSE]
    IN  [gameState |-> dealCards(gameState, 0, Len(playerIds)),
         turnTimer |-> NULL,
         turnExpiresAt |-> NULL,
         timeouts |-> <<>>,
         crashed |-> FALSE,
         hooks |-> <<>>]

\* constructor: the deck is shuffleDeck(createDeck())
newGame(playerIds, playerNames, r) ==
    newGameWithDeck(playerIds, playerNames, shuffleDeck(createDeck, r))

\* drawFirstCard: r is the reshuffle, colorIndex the random colour of a wild
drawFirstCard(this, r, colorIndex) ==
    LET g0 == IF Len(this.gameState.deck) = 0
              THEN reshuffleDeck(this.gameState, r) ELSE this.gameState
        n == Len(g0.deck)
    IN  IF n = 0 THEN [this EXCEPT !.crashed = TRUE]   \* firstCard.color throws
        ELSE
        LET popped == g0.deck[n]
            firstCard == IF popped.color = "wild"
                         THEN [popped EXCEPT !.color = allColors[colorIndex + 1]]
                         ELSE popped
            players == Len(g0.players)
            g1 == [g0 EXCEPT !.deck = SubSeq(@, 1, n - 1)]
            g2 == IF firstCard.value = "skip"
                  THEN [g1 EXCEPT !.currentPlayerIndex =
                            jsMod(g1.currentPlayerIndex + g1.direction, players)]
                  ELSE IF firstCard.value = "reverse"
                  THEN IF players = 2
                       THEN [g1 EXCEPT !.currentPlayerIndex =
                                jsMod(g1.currentPlayerIndex + g1.direction, players)]
                       ELSE [g1 EXCEPT !.direction = -1]
                  ELSE g1
            g3 == [g2 EXCEPT !.discardPile = Append(@, firstCard),
                             !.topCard = firstCard,
                             !.currentColor = firstCard.color,
                             !.status = "playing"]
        IN  setTimeout([this EXCEPT !.gameState = g3], dealingAnimationDelay)

(***************************************************************************)
(* The public methods.  Each is an operator from the object and the call's *)
(* arguments (and r, the random value of a reshuffle) to the object after  *)
(* the call and the returned { success, message }.                         *)
(***************************************************************************)
Return(this, success, message) ==
    [this |-> this, success |-> success, message |-> message]

\* an uncaught TypeError: the mutations made so far stay, the process ends
Throw(this) ==
    [this |-> [this EXCEPT !.crashed = TRUE], success |-> FALSE,
     message |-> "TypeError"]

\* players.findIndex(p => p.id === playerId), 0-based, -1 when absent
findIndex(players, playerId) ==
    IF \E i \in 1..Len(players) : players[i].id = playerId
    THEN (CHOOSE i \in 1..Len(players) :
             /\ players[i].id = playerId
             /\ \A j \in 1..(i - 1) : players[j].id # playerId) - 1
    ELSE -1

\* the turn check left out
notYourTurnUnchecked(gameState, playerIndex) == FALSE

\* if (playerIndex !== this.gameState.currentPlayerIndex)
notYourTurn(gameState, playerIndex) ==
    playerIndex # gameState.currentPlayerIndex

\* the win without clearTurnTimer
playerWinsTimerKept(this, gameState, playerIndex) ==
    [this EXCEPT !.gameState = [gameState EXCEPT !.status = "finished",
                                                 !.winner = playerIndex]]

\* the win without recording the winner
playerWinsNoWinner(this, gameState, playerIndex) ==
    clearTurnTimer([this EXCEPT !.gameState =
                       [gameState EXCEPT !.status = "finished"]])

\* lines 552-558 of playCard: the hand is empty, the game is over
playerWins(this, gameState, playerIndex) ==
    clearTurnTimer([this EXCEPT !.gameState =
                       [gameState EXCEPT !.status = "finished",
                                         !.winner = playerIndex]])

removeAt(hand, cardIndex) ==
    SubSeq(hand, 1, cardIndex) \o SubSeq(hand, cardIndex + 2, Len(hand))

\* the two-seat rule applied whatever the number of seats
anotherTurnAnySeatCount(gameState, card) ==
    card.value \in {"skip", "reverse", "draw2", "draw4"}

\* the two-seat rule without draw2
anotherTurnWithoutDraw2(gameState, card) ==
    /\ Len(gameState.players) = 2
    /\ card.value \in {"skip", "reverse", "draw4"}

isActionCardGivingAnotherTurn(gameState, card) ==
    /\ Len(gameState.players) = 2
    /\ card.value \in {"skip", "reverse", "draw2", "draw4"}

\* a reverse that skips the next seat whatever the number of seats
skipTurnOnEveryReverse(g, card) ==
    card.value \in {"draw4", "skip", "draw2", "reverse"}

\* skipTurn of playCard, lines 598-617
skipTurn(g, card) ==
    \/ card.value \in {"draw4", "skip", "draw2"}
    \/ card.value = "reverse" /\ Len(g.players) = 2

\* lines 597-678 of playCard: the card's effect and the turn change
playCardEffect(this, card, r) ==
    LET g == this.gameState
        drawAmount == IF card.value = "draw4" THEN 4
                      ELSE IF card.value = "draw2" THEN 2 ELSE 0
        reversed == IF card.value = "reverse"
                    THEN [g EXCEPT !.direction = 0 - g.direction] ELSE g
        g1 == [reversed EXCEPT !.hasDrawnPlayableCard = FALSE]
        cleared == clearTurnTimer(this)
        totalDelay == ANIMATION_DURATION
                        + (IF drawAmount > 0 THEN ANIMATION_DURATION ELSE 0)
    IN  IF ~skipTurn(g, card)
        THEN setTimeout([cleared EXCEPT !.gameState = nextTurn(g1)],
                        ANIMATION_DURATION)
        ELSE LET g2 == nextTurn(g1)
                 g3 == IF drawAmount > 0
                       THEN drawManyInto(g2, g2.currentPlayerIndex, drawAmount, r)
                       ELSE g2
             IN  setTimeout([cleared EXCEPT !.gameState = nextTurn(g3)], totalDelay)

\* a colour of the play that takes the choice of the client as it comes
colorOfPlayUnchecked(card, chosenColor) ==
    IF card.color = "wild" THEN chosenColor ELSE card.color

\* lines 539-549 of playCard: the colour in play after the card
colorOfPlay(card, chosenColor) ==
    IF card.color = "wild"
    THEN IF chosenColor \in Range(allColors) THEN chosenColor ELSE "red"
    ELSE card.color

playCard(this, playerId, cardIndex, chosenColor, r) ==
    LET gameState == this.gameState
        playerIndex == findIndex(gameState.players, playerId)
    IN  IF gameState.status # "playing"
        THEN Return(this, FALSE, "Game is not in playing state")
        ELSE IF playerIndex = -1 THEN Return(this, FALSE, "Player not found")
        ELSE IF notYourTurn(gameState, playerIndex)
        THEN Return(this, FALSE, "Not your turn")
        ELSE IF gameState.waitingForUno
        THEN Return(this, FALSE, "You must call UNO first")
        ELSE
        LET player == gameState.players[playerIndex + 1]
        IN  IF Len(player.hand) = 1 /\ ~player.hasUno
               /\ gameState.hasPlayedCardThisTurn
            THEN Return(this, FALSE, "You must call UNO before playing another card")
            ELSE IF cardIndex < 0 \/ cardIndex >= Len(player.hand)
            THEN Return(this, FALSE, "Invalid card index")
            ELSE
            LET card == player.hand[cardIndex + 1]
            IN  IF canPlayCardThrows(card, gameState.topCard,
                                     gameState.currentColor, player.hand)
                THEN Throw(this)
                ELSE IF ~canPlayCard(card, gameState.topCard,
                                     gameState.currentColor, player.hand)
                THEN Return(this, FALSE,
                            IF isWildDraw4(card)
                            THEN "Cannot play Wild Draw 4: You have a card matching the current color"
                            ELSE "Cannot play this card")
                ELSE
                LET g1 == [gameState EXCEPT
                             !.players[playerIndex + 1].hand = removeAt(@, cardIndex),
                             !.hasPlayedCardThisTurn = TRUE,
                             !.discardPile = Append(@, card),
                             !.topCard = card,
                             !.currentColor = colorOfPlay(card, chosenColor)]
                    hand == g1.players[playerIndex + 1].hand
                IN  IF Len(hand) = 0
                    THEN Return(playerWins(this, g1, playerIndex),
                                TRUE, "Player wins!")
                    ELSE IF Len(hand) = 1 /\ ~player.hasUno
                            /\ ~isActionCardGivingAnotherTurn(g1, card)
                            /\ g1.hasPlayedCardThisTurn
                    THEN Return([this EXCEPT !.gameState =
                                    [g1 EXCEPT !.waitingForUno = TRUE,
                                               !.hasDrawnPlayableCard = FALSE]],
                                TRUE, "Card played - call UNO!")
                    ELSE Return(playCardEffect([this EXCEPT !.gameState = g1],
                                               card, r),
                                TRUE, "Card played")

\* a remaining time that is always the full duration
remainingTimeFresh(this) == turnTimeLimit

\* lines 708-711 of drawCard: Math.max(0, this.turnExpiresAt - Date.now())
\* when a deadline is set, this.turnTimeLimit when none is
remainingTimeOf(this) ==
    IF this.turnExpiresAt # NULL
    THEN IF this.turnExpiresAt > 0 THEN this.turnExpiresAt ELSE 0
    ELSE turnTimeLimit

drawCard(this, playerId, r) ==
    LET gameState == this.gameState
        playerIndex == findIndex(gameState.players, playerId)
    IN  IF gameState.status # "playing"
        THEN Return(this, FALSE, "Game is not in playing state")
        ELSE IF playerIndex = -1 THEN Return(this, FALSE, "Player not found")
        ELSE IF notYourTurn(gameState, playerIndex)
        THEN Return(this, FALSE, "Not your turn")
        ELSE IF gameState.waitingForUno
        THEN Return(this, FALSE, "You must call UNO first")
        ELSE
        LET player == gameState.players[playerIndex + 1]
            remainingTime == remainingTimeOf(this)
            cleared == clearTurnTimer(this)
        IN  IF gameState.hasDrawnPlayableCard
            THEN Return(cleared, FALSE,
                        "You must play the drawn card or end your turn")
            ELSE IF hasPlayableCardThrows(player.hand, gameState.topCard,
                                          gameState.currentColor)
            THEN Throw(cleared)
            ELSE IF hasPlayableCard(player.hand, gameState.topCard,
                                    gameState.currentColor)
            THEN Return(cleared, FALSE,
                        "You have a playable card. You must play a card before drawing.")
            ELSE
            LET g1 == drawInto(gameState, playerIndex, r)
                hand == g1.players[playerIndex + 1].hand
                drawnCard == hand[Len(hand)]
                g2 == IF Len(hand) > 1
                      THEN [g1 EXCEPT !.players[playerIndex + 1].hasUno = FALSE]
                      ELSE g1
            IN  IF canPlayCardThrows(drawnCard, g2.topCard, g2.currentColor, hand)
                THEN Throw([cleared EXCEPT !.gameState = g2])
                ELSE IF canPlayCard(drawnCard, g2.topCard, g2.currentColor, hand)
                THEN Return(startTurnTimerWithDuration(
                                [cleared EXCEPT !.gameState =
                                    [g2 EXCEPT !.hasDrawnPlayableCard = TRUE]],
                                remainingTime),
                            TRUE, "Card drawn - you can play it or end your turn")
                ELSE Return(setTimeout([cleared EXCEPT !.gameState = nextTurn(g2)],
                                       ANIMATION_DURATION),
                            TRUE, "Card drawn - not playable, turn ends")

\* an endTurn that does not ask for a drawn playable card
endTurnAnyTime(this, playerId) ==
    LET gameState == this.gameState
        playerIndex == findIndex(gameState.players, playerId)
    IN  IF gameState.status # "playing" \/ playerIndex = -1
           \/ notYourTurn(gameState, playerIndex)
        THEN Return(this, FALSE, "Not your turn")
        ELSE Return(setTimeout(
                        [clearTurnTimer(this) EXCEPT !.gameState =
                            nextTurn(gameState)],
                        ANIMATION_DURATION),
                    TRUE, "Turn ended")

endTurn(this, playerId) ==
    LET gameState == this.gameState
        playerIndex == findIndex(gameState.players, playerId)
    IN  IF gameState.status # "playing"
        THEN Return(this, FALSE, "Game is not in playing state")
        ELSE IF playerIndex = -1 THEN Return(this, FALSE, "Player not found")
        ELSE IF notYourTurn(gameState, playerIndex)
        THEN Return(this, FALSE, "Not your turn")
        ELSE IF ~gameState.hasDrawnPlayableCard
        THEN Return(this, FALSE,
                    "You can only end your turn after drawing a playable card")
        ELSE Return(setTimeout(
                        [clearTurnTimer(this) EXCEPT !.gameState =
                            nextTurn([gameState EXCEPT
                                         !.hasDrawnPlayableCard = FALSE])],
                        ANIMATION_DURATION),
                    TRUE, "Turn ended")

\* a callUno that leaves the turn timer running
callUnoKeepsTimer(this, playerId) ==
    LET gameState == this.gameState
        playerIndex == findIndex(gameState.players, playerId)
    IN  IF gameState.status # "playing" \/ playerIndex = -1
           \/ notYourTurn(gameState, playerIndex)
        THEN Return(this, FALSE, "Not your turn")
        ELSE IF Len(gameState.players[playerIndex + 1].hand) = 1
                /\ ~gameState.players[playerIndex + 1].hasUno
        THEN Return(setTimeout([this EXCEPT !.gameState = nextTurn(gameState)],
                               ANIMATION_DURATION),
                    TRUE, "UNO called")
        ELSE Return(this, FALSE, "Cannot call UNO")

callUno(this, playerId) ==
    LET gameState == this.gameState
        playerIndex == findIndex(gameState.players, playerId)
    IN  IF gameState.status # "playing"
        THEN Return(this, FALSE, "Game is not in playing state")
        ELSE IF playerIndex = -1 THEN Return(this, FALSE, "Player not found")
        ELSE IF notYourTurn(gameState, playerIndex)
        THEN Return(this, FALSE, "Not your turn")
        ELSE
        LET player == gameState.players[playerIndex + 1]
        IN  IF Len(player.hand) = 1 /\ ~player.hasUno
            THEN Return(setTimeout(
                            [clearTurnTimer(this) EXCEPT !.gameState =
                                nextTurn([gameState EXCEPT
                                    !.players[playerIndex + 1].hasUno = TRUE,
                                    !.hasDrawnPlayableCard = FALSE])],
                            ANIMATION_DURATION),
                        TRUE, "UNO called")
            ELSE Return(this, FALSE, "Cannot call UNO")

(***************************************************************************)
(* Disconnect and reconnect.  A name is a sequence of tokens, so that      *)
(* appending and removing " (Disconnected)" are what the source's string   *)
(* operations do; the absent originalName is the empty name.               *)
(***************************************************************************)
DisconnectedSuffix == " (Disconnected)"

RECURSIVE replaceSuffix(_)
\* name.replace(' (Disconnected)', ''): the first occurrence is removed
replaceSuffix(name) ==
    IF name = <<>> THEN <<>>
    ELSE IF Head(name) = DisconnectedSuffix THEN Tail(name)
    ELSE <<Head(name)>> \o replaceSuffix(Tail(name))

\* getPublicState(playerId = null): a hand is hidden when playerId is
\* truthy and is not the id of its seat
getPublicState(this, playerId) ==
    LET gameState == this.gameState
        publicPlayer(player) ==
            [id |-> player.id,
             name |-> player.name,
             hand |-> IF playerId # NULL /\ player.id # playerId
                      THEN <<>> ELSE player.hand,
             handSize |-> Len(player.hand),
             hasUno |-> player.hasUno]
    IN  [waitingForUno |-> gameState.waitingForUno,
         players |-> [i \in 1..Len(gameState.players) |->
                         publicPlayer(gameState.players[i])],
         deck |-> [count |-> Len(gameState.deck)],
         discardPile |-> gameState.discardPile,
         topCard |-> gameState.topCard,
         currentPlayerIndex |-> gameState.currentPlayerIndex,
         direction |-> gameState.direction,
         status |-> gameState.status,
         winner |-> gameState.winner,
         currentColor |-> gameState.currentColor,
         hasDrawnPlayableCard |-> gameState.hasDrawnPlayableCard]

\* gameState: this.getPublicState() in the object a successful playCard,
\* drawCard, endTurn or callUno returns
resultGameState(this) == getPublicState(this, NULL)

\* a disconnect that ends the running turn timer
handlePlayerDisconnectClearsTimer(this, playerId) ==
    LET playerIndex == findIndex(this.gameState.players, playerId)
    IN  IF playerIndex = -1 THEN Return(this, FALSE, "Player not found in game")
        ELSE Return(clearTurnTimer(
                        [this EXCEPT
                            !.gameState.players[playerIndex + 1].disconnected =
                                TRUE]),
                    TRUE, "")

handlePlayerDisconnect(this, playerId) ==
    LET gameState == this.gameState
        playerIndex == findIndex(gameState.players, playerId)
    IN  IF playerIndex = -1 THEN Return(this, FALSE, "Player not found in game")
        ELSE IF gameState.status = "finished" THEN Return(this, TRUE, "")
        ELSE LET originalName == replaceSuffix(gameState.players[playerIndex + 1].name)
             IN  Return([this EXCEPT
                            !.gameState.players[playerIndex + 1] =
                                [@ EXCEPT !.originalName = originalName,
                                          !.disconnected = TRUE,
                                          !.name = Append(originalName,
                                                          DisconnectedSuffix)]],
                        TRUE, "")

\* p.originalName || p.name.replace(' (Disconnected)', '')
reconnectName(p) ==
    IF p.originalName # <<>> THEN p.originalName ELSE replaceSuffix(p.name)

\* a reconnect that restarts the turn timer whether or not one is running
handlePlayerReconnectRestarts(this, oldPlayerId, newPlayerId, playerName) ==
    LET players == this.gameState.players
        matches(i) == \/ players[i].id = oldPlayerId
                      \/ reconnectName(players[i]) = playerName
    IN  IF ~\E i \in 1..Len(players) : matches(i)
        THEN Return(this, FALSE, "Player not found in game")
        ELSE
        LET i == CHOOSE k \in 1..Len(players) :
                     matches(k) /\ \A j \in 1..(k - 1) : ~matches(j)
            after == [this EXCEPT !.gameState.players[i].id = newPlayerId,
                                  !.gameState.players[i].disconnected = FALSE]
        IN  Return(IF after.gameState.status = "playing"
                   THEN startTurnTimer(after) ELSE after,
                   TRUE, "")

handlePlayerReconnect(this, oldPlayerId, newPlayerId, playerName) ==
    LET players == this.gameState.players
        matches(i) == \/ players[i].id = oldPlayerId
                      \/ reconnectName(players[i]) = playerName
    IN  IF ~\E i \in 1..Len(players) : matches(i)
        THEN Return(this, FALSE, "Player not found in game")
        ELSE
        LET i == CHOOSE k \in 1..Len(players) :
                     matches(k) /\ \A j \in 1..(k - 1) : ~matches(j)
            player == players[i]
            reattached == [player EXCEPT
                             !.id = newPlayerId,
                             !.name = IF player.originalName # <<>>
                                      THEN player.originalName ELSE playerName,
                             !.originalName = <<>>,
                             !.disconnected = FALSE]
            after == [this EXCEPT !.gameState.players[i] = reattached]
            activePlayers == {k \in 1..Len(players) :
                                 ~after.gameState.players[k].disconnected}
        IN  Return(IF Cardinality(activePlayers) > 0
                      /\ after.gameState.status = "playing"
                      /\ after.turnExpiresAt = NULL
                   THEN startTurnTimer(after) ELSE after,
                   TRUE, "")

(***************************************************************************)
(* The state: the Game object, and the number of sockets the server has    *)
(* accepted so far (socket ids are 1, 2, ...; a new connection gets the    *)
(* next one).                                                              *)
(***************************************************************************)
VARIABLES gameState, turnTimer, turnExpiresAt, timeouts, crashed, sockets, moves,
          horizon, resumed

vars == <<gameState, turnTimer, turnExpiresAt, timeouts, crashed, sockets, moves,
          horizon, resumed>>

Game == [gameState |-> gameState, turnTimer |-> turnTimer,
         turnExpiresAt |-> turnExpiresAt, timeouts |-> timeouts,
         crashed |-> crashed, hooks |-> <<>>]

MinPlayers == 2

SocketIds == 1..MaxSockets

\* the ids of the sockets the server has accepted so far
acceptedSockets == 1..sockets

\* the sockets that can still send an event: a seat is flagged disconnected
\* by the 'disconnect' event of its socket, which sends nothing after it
openSockets ==
    {id \in acceptedSockets :
        \A i \in 1..Len(gameState.players) :
            gameState.players[i].id = id => ~gameState.players[i].disconnected}

seatNames == <<"alice", "bob", "carol", "dave", "erin">>

playerName(seat) == <<seatNames[seat + 1]>>

PlayerNames == {playerName(seat) : seat \in 0..(MaxPlayers - 1)}

ChosenColors == Range(colors) \cup {"null"}

undefinedCount(g) ==
    SumSeq([i \in 1..Len(g.players) |->
               Cardinality({k \in 1..Len(g.players[i].hand) :
                               g.players[i].hand[k] = undefined})])

connectedSeats(g) ==
    {seat \in 0..(Len(g.players) - 1) : ~g.players[seat + 1].disconnected}

\* the game has stalled: playing, every seat disconnected, no deadline and
\* no callback pending
paused ==
    /\ gameState.status = "playing"
    /\ turnExpiresAt = NULL
    /\ turnTimer = NULL
    /\ timeouts = <<>>
    /\ connectedSeats(gameState) = {}

\* the turn of the seat in `resumed' is over in the state g
turnOver(g) ==
    \/ g.currentPlayerIndex # gameState.currentPlayerIndex
    \/ g.status = "finished"

\* the object after a call or callback; the bounds cut the run where the
\* next step would exceed them
BecomesGame(this) ==
    /\ undefinedCount(this.gameState) <= MaxUndefined
    /\ Len(this.timeouts) <= MaxDeferred
    /\ gameState' = this.gameState
    /\ turnTimer' = this.turnTimer
    /\ turnExpiresAt' = this.turnExpiresAt
    /\ timeouts' = this.timeouts
    /\ crashed' = this.crashed
    /\ moves' = IF this.gameState # gameState /\ gameState.status # "dealing"
                THEN moves + 1 ELSE moves
    /\ moves' <= horizon
    /\ horizon' = horizon

\* resumed is the seat whose turn a successful handlePlayerReconnect has
\* resumed from the pause, as long as that turn lasts
Becomes(this) ==
    /\ resumed' = IF turnOver(this.gameState) THEN NULL ELSE resumed
    /\ BecomesGame(this)

\* startGame (server.js): new Game(...) for a full lobby of 2, 3 or 4
startGame(playerCounts, maxMoves) ==
    \E n \in playerCounts, r \in Randoms :
        LET this == newGame([i \in 1..n |-> i],
                            [i \in 1..n |-> playerName(i - 1)], r)
        IN  /\ gameState = this.gameState
            /\ turnTimer = this.turnTimer
            /\ turnExpiresAt = this.turnExpiresAt
            /\ timeouts = this.timeouts
            /\ crashed = this.crashed
            /\ sockets = n
            /\ moves = 0
            /\ horizon = maxMoves
            /\ resumed = NULL

Init == startGame(MinPlayers..MaxPlayers, MaxMoves)

\* games of two seats only
InitFair == startGame({MinPlayers}, MaxMoves)

\* the deck s cut at k: a shuffle that shuffleDeck can also produce
rotate(s, k) == SubSeq(s, k + 1, Len(s)) \o SubSeq(s, 1, k)

\* games of two seats in which any card of the deck can be the first card
InitAnyFirstCard ==
    \E r \in Randoms, k \in 0..(Len(createDeck) - 1) :
        LET this == newGameWithDeck(<<1, 2>>, <<playerName(0), playerName(1)>>,
                                    rotate(shuffleDeck(createDeck, r), k))
        IN  /\ gameState = this.gameState
            /\ turnTimer = this.turnTimer
            /\ turnExpiresAt = this.turnExpiresAt
            /\ timeouts = this.timeouts
            /\ crashed = this.crashed
            /\ sockets = MinPlayers
            /\ moves = 0
            /\ horizon = MaxMovesAnyFirstCard
            /\ resumed = NULL

\* games of two seats only, followed further
InitTwoSeats == startGame({MinPlayers}, MaxMovesTwoSeats)

\* the hands of n different cards of the deck
handsOfSize(n) ==
    {hand \in [1..n -> Range(createDeck)] :
        \A i \in 1..n, j \in 1..n : hand[i] = hand[j] => i = j}

\* a two-seat game in play at the start of the turn of seat 0, which holds
\* `hand'; the other seat holds the next cardsPerPlayer cards, the deck the
\* rest
midGame(hand, topCard, currentColor) ==
    LET elsewhere(card) == card \notin Range(hand) \cup {topCard}
        rest == SelectSeq(createDeck, elsewhere)
    IN  [players |-> <<[newPlayer(1, playerName(0)) EXCEPT !.hand = hand],
                       [newPlayer(2, playerName(1)) EXCEPT
                           !.hand = SubSeq(rest, 1, cardsPerPlayer)]>>,
         deck |-> SubSeq(rest, cardsPerPlayer + 1, Len(rest)),
         discardPile |-> <<topCard>>,
         topCard |-> topCard,
         currentPlayerIndex |-> 0,
         direction |-> 1,
         status |-> "playing",
         winner |-> NULL,
         currentColor |-> currentColor,
         hasDrawnPlayableCard |-> FALSE,
         hasPlayedCardThisTurn |-> FALSE,
         waitingForUno |-> FALSE]

\* the inputs of the rule validator: every hand of up to MaxHand cards,
\* every top card and every colour in play that goes with it
InitRules ==
    \E n \in 1..MaxHand :
        \E hand \in handsOfSize(n) :
            \E topCard \in Range(createDeck) \ Range(hand) :
                \E currentColor \in (IF topCard.color = "wild"
                                     THEN Range(colors) ELSE {topCard.color}) :
                    /\ gameState = midGame(hand, topCard, currentColor)
                    /\ turnTimer = turnTimeLimit
                    /\ turnExpiresAt = turnTimeLimit
                    /\ timeouts = <<>>
                    /\ crashed = FALSE
                    /\ sockets = MinPlayers
                    /\ moves = 0
                    /\ horizon = MaxMovesRules
                    /\ resumed = NULL

\* startGame calls drawFirstCard once, right after the constructor
DrawFirstCard ==
    /\ ~crashed
    /\ gameState.status = "dealing"
    /\ \E r \in Randoms, rc \in Randoms :
          Becomes(drawFirstCard(Game, r, randomIndex(rc, Len(allColors))))
    /\ UNCHANGED sockets

\* the socket handlers find the game through playerToGame, playerNameToGame
\* and activeGames, which startGame fills after it has called
\* drawFirstCard; a crashed process handles nothing
registered == ~crashed /\ gameState.status # "dealing"

activeHand == gameState.players[gameState.currentPlayerIndex + 1].hand

\* Math.random is called only by a reshuffle, which needs an empty deck
\* within the call: one call draws at most four cards
shuffleRandoms == IF Len(gameState.deck) < 4 THEN Randoms ELSE {0}

\* the client sends a chosen colour with a wild card only
chosenColorsFor(cardIndex) ==
    IF cardIndex >= 0 /\ cardIndex < Len(activeHand)
       /\ activeHand[cardIndex + 1].color = "wild"
    THEN ChosenColors ELSE {"null"}

PlayCard ==
    /\ registered
    /\ \E playerId \in openSockets, cardIndex \in (-1)..Len(activeHand) :
          \E chosenColor \in chosenColorsFor(cardIndex), r \in shuffleRandoms :
             Becomes(playCard(Game, playerId, cardIndex, chosenColor, r).this)
    /\ UNCHANGED sockets

DrawCard ==
    /\ registered
    /\ \E playerId \in openSockets, r \in shuffleRandoms :
          Becomes(drawCard(Game, playerId, r).this)
    /\ UNCHANGED sockets

EndTurn ==
    /\ registered
    /\ \E playerId \in openSockets : Becomes(endTurn(Game, playerId).this)
    /\ UNCHANGED sockets

CallUno ==
    /\ registered
    /\ \E playerId \in openSockets : Becomes(callUno(Game, playerId).this)
    /\ UNCHANGED sockets

\* socket.on('disconnect'): the socket of a seat closes
Disconnect ==
    /\ registered
    /\ \E playerId \in openSockets :
          Becomes(handlePlayerDisconnect(Game, playerId).this)
    /\ UNCHANGED sockets

\* socket.on('check_reconnection') from a new socket
CheckReconnection ==
    /\ registered
    /\ sockets < MaxSockets
    /\ gameState.status # "finished"
    /\ \E name \in PlayerNames :
          /\ \E i \in 1..Len(gameState.players) :
                reconnectName(gameState.players[i]) = name
          /\ LET i == CHOOSE k \in 1..Len(gameState.players) :
                         /\ reconnectName(gameState.players[k]) = name
                         /\ \A j \in 1..(k - 1) :
                                reconnectName(gameState.players[j]) # name
                 res == handlePlayerReconnect(Game, gameState.players[i].id,
                                              sockets + 1, name)
             IN  /\ BecomesGame(res.this)
                 /\ resumed' = IF paused /\ res.success
                               THEN res.this.gameState.currentPlayerIndex
                               ELSE IF turnOver(res.this.gameState) THEN NULL
                               ELSE resumed
    /\ sockets' = sockets + 1

\* the expiry callback of the turn timer runs
TurnTimerFires ==
    /\ ~crashed
    /\ turnTimer = 0
    /\ \E r \in shuffleRandoms : Becomes(handleTurnTimeout(Game, r))
    /\ UNCHANGED sockets

\* a deferred callback runs: () => { this.startTurnTimer(); ... }
DeferredFires ==
    /\ ~crashed
    /\ timeouts # <<>>
    /\ Head(timeouts) = 0
    /\ Becomes(startTurnTimer([Game EXCEPT !.timeouts = Tail(timeouts)]))
    /\ UNCHANGED sockets

\* time passes, up to the next pending callback
Tick ==
    /\ ~crashed
    /\ turnTimer # 0
    /\ timeouts # <<>> => Head(timeouts) > 0
    /\ turnTimer # NULL \/ timeouts # <<>>
    /\ LET pending == (IF turnTimer # NULL THEN {turnTimer} ELSE {})
                        \cup Range(timeouts)
           d == CHOOSE x \in pending : \A y \in pending : x <= y
       IN  /\ turnTimer' = IF turnTimer # NULL THEN turnTimer - d ELSE NULL
           /\ turnExpiresAt' = IF turnExpiresAt # NULL
                               THEN turnExpiresAt - d ELSE NULL
           /\ timeouts' = [i \in 1..Len(timeouts) |-> timeouts[i] - d]
    /\ UNCHANGED <<gameState, crashed, sockets, moves, horizon, resumed>>

Next ==
    \/ DrawFirstCard
    \/ PlayCard
    \/ DrawCard
    \/ EndTurn
    \/ CallUno
    \/ Disconnect
    \/ CheckReconnection
    \/ TurnTimerFires
    \/ DeferredFires
    \/ Tick

Spec == Init /\ [][Next]_vars

\* the steps of a game in which every seat stays connected
NextConnected ==
    \/ DrawFirstCard
    \/ PlayCard
    \/ DrawCard
    \/ EndTurn
    \/ CallUno
    \/ TurnTimerFires
    \/ DeferredFires
    \/ Tick

SpecTwoSeats == InitTwoSeats /\ [][NextConnected]_vars

SpecAnyFirstCard == InitAnyFirstCard /\ [][NextConnected]_vars

\* the calls that consult the rule validator
NextRules ==
    \/ PlayCard
    \/ DrawCard

SpecRules == InitRules /\ [][NextRules]_vars

\* the event loop runs every callback that is due, and time passes; nothing
\* obliges a client to send anything
SpecFair ==
    /\ InitFair
    /\ [][Next]_vars
    /\ WF_vars(TurnTimerFires)
    /\ WF_vars(DeferredFires)
    /\ WF_vars(Tick)

(***************************************************************************)
(* Vocabulary of the properties.                                           *)
(***************************************************************************)
Seats == 0..(Len(gameState.players) - 1)

handOf(g, seat) == g.players[seat + 1].hand

handSizes(g) == [i \in 1..Len(g.players) |-> Len(g.players[i].hand)]

cardCount(g) == Len(g.deck) + Len(g.discardPile) + SumSeq(handSizes(g))

activeId == gameState.players[gameState.currentPlayerIndex + 1].id

\* every card index a client may send: the valid ones, -1 and one too many
CardIndexes == (-1)..Len(activeHand)

actionValues == {"skip", "reverse", "draw2", "draw4"}

sameCards(g, h) ==
    /\ g.deck = h.deck
    /\ g.discardPile = h.discardPile
    /\ \A i \in 1..Len(g.players) : g.players[i].hand = h.players[i].hand

statusRank(status) ==
    IF status = "dealing" THEN 0 ELSE IF status = "playing" THEN 1 ELSE 2

(***************************************************************************)
(* C1.  Card conservation: in every reachable state                        *)
(* |deck| + |discardPile| + the sum of the hand sizes is the size of the   *)
(* full deck, also when a draw or a penalty is demanded with an empty      *)
(* deck.  The code breaks it: with the deck empty and at most one card on  *)
(* the discard pile reshuffleDeck returns without refilling, deck.pop()    *)
(* yields undefined and the hand grows by an entry that is no card.        *)
(***************************************************************************)
C1_CardConservation == cardCount(gameState) = Len(createDeck)

(***************************************************************************)
(* C2.  currentPlayerIndex is in [0, |players|) in every reachable state.  *)
(***************************************************************************)
C2_CurrentPlayerInRange ==
    /\ gameState.currentPlayerIndex >= 0
    /\ gameState.currentPlayerIndex < Len(gameState.players)

\* the turn has wrapped from seat 0 to the last seat, against the seat order
C2_Witness ==
    /\ gameState.status = "playing"
    /\ gameState.direction = -1
    /\ gameState.currentPlayerIndex = Len(gameState.players) - 1
    /\ moves > 0

(***************************************************************************)
(* C3.  playCard, drawCard, endTurn and callUno called with the id of a    *)
(* seat that is not the active seat, or with an id of no seat, return      *)
(* success = false and leave the game state and the armed deadline as      *)
(* they were.                                                              *)
(***************************************************************************)
C3_OnlyActiveSeatActs ==
    \A playerId \in SocketIds :
        findIndex(gameState.players, playerId) # gameState.currentPlayerIndex =>
            /\ \A cardIndex \in CardIndexes, chosenColor \in ChosenColors,
                  r \in Randoms :
                  LET res == playCard(Game, playerId, cardIndex, chosenColor, r)
                  IN  ~res.success /\ res.this = Game
            /\ \A r \in Randoms :
                  LET res == drawCard(Game, playerId, r)
                  IN  ~res.success /\ res.this = Game
            /\ LET res == endTurn(Game, playerId)
               IN  ~res.success /\ res.this = Game
            /\ LET res == callUno(Game, playerId)
               IN  ~res.success /\ res.this = Game

\* a deadline is armed, a seat that is not active holds a card it could
\* play, and an id of no seat exists
C3_Witness ==
    /\ gameState.status = "playing"
    /\ turnExpiresAt # NULL
    /\ \E seat \in Seats :
          /\ seat # gameState.currentPlayerIndex
          /\ hasPlayableCard(handOf(gameState, seat), gameState.topCard,
                             gameState.currentColor)
    /\ \E playerId \in SocketIds : findIndex(gameState.players, playerId) = -1

(***************************************************************************)
(* C4.  Winning supersedes every other rule: a successful playCard that    *)
(* leaves the player's hand empty ends in status finished with that seat   *)
(* as winner and no deadline armed; no other hand grows, direction and     *)
(* currentPlayerIndex are unchanged and waitingForUno is false, whatever   *)
(* the last card is.                                                       *)
(***************************************************************************)
C4_WinSupersedes ==
    \A cardIndex \in CardIndexes, chosenColor \in ChosenColors, r \in Randoms :
        LET seat == gameState.currentPlayerIndex
            res == playCard(Game, activeId, cardIndex, chosenColor, r)
            after == res.this.gameState
        IN  (res.success /\ Len(handOf(after, seat)) = 0) =>
                /\ after.status = "finished"
                /\ after.winner = seat
                /\ res.this.turnExpiresAt = NULL
                /\ res.this.turnTimer = NULL
                /\ \A other \in Seats \ {seat} :
                      handOf(after, other) = handOf(gameState, other)
                /\ after.direction = gameState.direction
                /\ after.currentPlayerIndex = gameState.currentPlayerIndex
                /\ ~after.waitingForUno

\* a game of three seats won with an action card as the last card
C4_Witness ==
    /\ gameState.status = "finished"
    /\ Len(gameState.players) >= 3
    /\ gameState.topCard.value \in actionValues
    /\ Len(handOf(gameState, gameState.winner)) = 0

(***************************************************************************)
(* C5.  status is monotonic: every step keeps it or moves it forward in    *)
(* dealing -> playing -> finished.                                         *)
(***************************************************************************)
C5_StatusMonotonic ==
    [][statusRank(gameState'.status) >= statusRank(gameState.status)]_vars

\* the game is over while a deferred re-arm is still to run
C5_Witness ==
    /\ gameState.status = "finished"
    /\ timeouts # <<>>

(***************************************************************************)
(* C6.  winner is set iff status = finished iff some hand is empty; the    *)
(* empty hand is the winner's; once set, winner never changes.             *)
(***************************************************************************)
C6_WinnerState ==
    /\ gameState.winner # NULL <=> gameState.status = "finished"
    /\ gameState.status = "finished" <=>
          \E seat \in Seats : Len(handOf(gameState, seat)) = 0
    /\ \A seat \in Seats :
          Len(handOf(gameState, seat)) = 0 => gameState.winner = seat

C6_WinnerSetOnce ==
    /\ []C6_WinnerState
    /\ [][gameState.winner # NULL => gameState'.winner = gameState.winner]_vars

\* the last seat has won
C6_Witness ==
    /\ gameState.winner = Len(gameState.players) - 1
    /\ gameState.status = "finished"

(***************************************************************************)
(* C7.  With three or more seats: when the active seat plays a card that   *)
(* leaves it one card, waitingForUno becomes true and the active seat is   *)
(* unchanged; while it waits, playCard, drawCard and endTurn by that seat  *)
(* are rejected, and the active seat changes only by callUno from that     *)
(* seat or by a timer expiry.                                              *)
(***************************************************************************)
C7_WaitsAfterPlay ==
    Len(gameState.players) >= 3 =>
        \A cardIndex \in CardIndexes, chosenColor \in ChosenColors,
           r \in Randoms :
            LET seat == gameState.currentPlayerIndex
                res == playCard(Game, activeId, cardIndex, chosenColor, r)
                after == res.this.gameState
            IN  (res.success /\ Len(handOf(after, seat)) = 1) =>
                    /\ after.waitingForUno
                    /\ after.currentPlayerIndex = seat

C7_RejectedWhileWaiting ==
    (Len(gameState.players) >= 3 /\ gameState.waitingForUno) =>
        /\ \A cardIndex \in CardIndexes, chosenColor \in ChosenColors,
              r \in Randoms :
              ~playCard(Game, activeId, cardIndex, chosenColor, r).success
        /\ \A r \in Randoms : ~drawCard(Game, activeId, r).success
        /\ ~endTurn(Game, activeId).success

C7_SeatLeavesByUnoOrTimeout ==
    (/\ Len(gameState.players) >= 3
     /\ gameState.waitingForUno
     /\ gameState'.currentPlayerIndex # gameState.currentPlayerIndex) =>
        \/ /\ callUno(Game, activeId).success
           /\ gameState' = callUno(Game, activeId).this.gameState
        \/ /\ turnTimer = 0
           /\ \E r \in Randoms :
                 gameState' = handleTurnTimeout(Game, r).gameState

C7_DeclarationWait ==
    /\ [](C7_WaitsAfterPlay /\ C7_RejectedWhileWaiting)
    /\ [][C7_SeatLeavesByUnoOrTimeout]_vars

\* a seat of a three-seat game waits with its last card
C7_Witness ==
    /\ Len(gameState.players) >= 3
    /\ gameState.waitingForUno
    /\ Len(activeHand) = 1
    /\ gameState.hasPlayedCardThisTurn

(***************************************************************************)
(* C8.  With two seats: after every successful play of skip, reverse,      *)
(* draw2 or draw4 that does not win, the same seat is still the active     *)
(* seat and waitingForUno and hasPlayedCardThisTurn are false, also when   *)
(* the play left the seat one card; so reverse gives the same active seat  *)
(* as skip.                                                                *)
(***************************************************************************)
C8_TwoSeatAnotherTurn ==
    Len(gameState.players) = 2 =>
        \A cardIndex \in 0..(Len(activeHand) - 1),
           chosenColor \in ChosenColors, r \in Randoms :
            LET seat == gameState.currentPlayerIndex
                card == activeHand[cardIndex + 1]
                res == playCard(Game, activeId, cardIndex, chosenColor, r)
                after == res.this.gameState
            IN  (/\ res.success
                 /\ card.value \in actionValues
                 /\ Len(handOf(after, seat)) > 0) =>
                    /\ after.currentPlayerIndex = seat
                    /\ ~after.waitingForUno
                    /\ ~after.hasPlayedCardThisTurn

\* a seat of a two-seat game has just played an action card down to its
\* last card and is the active seat again
C8_Witness ==
    /\ Len(gameState.players) = 2
    /\ gameState.status = "playing"
    /\ gameState.topCard.value \in actionValues
    /\ Len(gameState.discardPile) >= 2
    /\ Len(activeHand) = 1
    /\ ~gameState.waitingForUno
    /\ ~gameState.hasPlayedCardThisTurn
    /\ timeouts # <<>>
    /\ turnTimer = NULL

(***************************************************************************)
(* C9.  drawCard by the active seat is rejected whenever some card of its  *)
(* hand satisfies canPlayCard against topCard and currentColor; the        *)
(* rejection moves no card between deck, discardPile and hands and leaves  *)
(* the active seat unchanged.  The code breaks it in a hand that an        *)
(* exhausted deck has corrupted: hasPlayableCard reaches the undefined     *)
(* entry before the playable card and throws instead of rejecting.         *)
(***************************************************************************)
C9_NoDrawWithPlayableCard ==
    (/\ ~crashed
     /\ gameState.status = "playing"
     /\ \E i \in 1..Len(activeHand) :
           /\ ~canPlayCardThrows(activeHand[i], gameState.topCard,
                                 gameState.currentColor, activeHand)
           /\ canPlayCard(activeHand[i], gameState.topCard,
                          gameState.currentColor, activeHand)) =>
        \A r \in Randoms :
            LET res == drawCard(Game, activeId, r)
                after == res.this.gameState
            IN  /\ ~res.success
                /\ ~res.this.crashed
                /\ sameCards(after, gameState)
                /\ after.currentPlayerIndex = gameState.currentPlayerIndex

(***************************************************************************)
(* C10.  A timer expiry adds to the timed-out seat's hand exactly 2 cards  *)
(* when waitingForUno is true, exactly 0 when hasDrawnPlayableCard is      *)
(* true and exactly 1 otherwise; no other hand changes; waitingForUno,     *)
(* hasDrawnPlayableCard and hasPlayedCardThisTurn are false afterwards.    *)
(* The code breaks it with the deck exhausted: what the penalty pushes is  *)
(* undefined, no card.                                                     *)
(***************************************************************************)
cardsOf(hand) == {i \in 1..Len(hand) : hand[i] # undefined}

timeoutPenaltySize(g) ==
    IF g.waitingForUno THEN 2 ELSE IF g.hasDrawnPlayableCard THEN 0 ELSE 1

C10_TimeoutPenalty ==
    (~crashed /\ turnTimer = 0) =>
        \A r \in Randoms :
            LET seat == gameState.currentPlayerIndex
                after == handleTurnTimeout(Game, r).gameState
            IN  /\ Cardinality(cardsOf(handOf(after, seat))) =
                      Cardinality(cardsOf(handOf(gameState, seat)))
                          + timeoutPenaltySize(gameState)
                /\ \A other \in Seats \ {seat} :
                      handOf(after, other) = handOf(gameState, other)
                /\ ~after.waitingForUno
                /\ ~after.hasDrawnPlayableCard
                /\ ~after.hasPlayedCardThisTurn

(***************************************************************************)
(* Vocabulary of the timer-expiry properties.                              *)
(***************************************************************************)
\* the seat k places after the active seat in the current direction
seatAfter(g, k) ==
    (g.currentPlayerIndex + k * g.direction + k * Len(g.players))
        % Len(g.players)

\* the first connected seat after the active seat in the current direction,
\* the active seat itself coming last
nextConnectedSeat(g) ==
    LET k == CHOOSE k \in 1..Len(g.players) :
                 /\ seatAfter(g, k) \in connectedSeats(g)
                 /\ \A j \in 1..(k - 1) : seatAfter(g, j) \notin connectedSeats(g)
    IN  seatAfter(g, k)

\* a timer expiry is about to be handled
timerExpires == ~crashed /\ turnTimer = 0

(***************************************************************************)
(* C11.  After a timer expiry is handled, if some seat is not disconnected *)
(* the active seat is the next connected seat in the current direction     *)
(* after the timed-out seat (the timed-out seat itself when it is the only *)
(* connected one) and a deadline is armed for it; the game pauses only     *)
(* when every seat is disconnected.  The code breaks it: its loop over     *)
(* disconnected seats pauses as soon as it comes back to the timed-out     *)
(* seat, without looking whether that seat is connected.                   *)
(***************************************************************************)
C11_TimeoutSkipsDisconnected ==
    timerExpires =>
        \A r \in Randoms :
            LET this == handleTurnTimeout(Game, r)
                after == this.gameState
            IN  /\ connectedSeats(gameState) # {} =>
                      /\ after.currentPlayerIndex = nextConnectedSeat(gameState)
                      /\ this.turnExpiresAt # NULL
                      /\ this.turnTimer # NULL
                /\ this.turnExpiresAt = NULL => connectedSeats(gameState) = {}

(***************************************************************************)
(* C12.  If every seat is disconnected when a timer expiry is handled the  *)
(* game pauses without advancing: currentPlayerIndex keeps its value and   *)
(* no deadline is armed afterwards.  The code breaks it: nextTurn and the  *)
(* loop have moved currentPlayerIndex before the pause is detected, and    *)
(* the pause does not move it back.                                        *)
(***************************************************************************)
C12_PauseDoesNotAdvance ==
    (timerExpires /\ connectedSeats(gameState) = {}) =>
        \A r \in Randoms :
            LET this == handleTurnTimeout(Game, r)
            IN  /\ this.gameState.currentPlayerIndex =
                      gameState.currentPlayerIndex
                /\ this.turnExpiresAt = NULL
                /\ this.turnTimer = NULL

(***************************************************************************)
(* Vocabulary of the liveness properties.                                  *)
(***************************************************************************)
\* the next step of the run may be one the bounds of the model leave out
atBound ==
    \/ moves >= horizon
    \/ undefinedCount(gameState) >= MaxUndefined
    \/ Len(timeouts) >= MaxDeferred

invoked(this, hook, playerIndex) ==
    \E i \in 1..Len(this.hooks) :
        /\ this.hooks[i].hook = hook
        /\ this.hooks[i].playerIndex = playerIndex

(***************************************************************************)
(* C13.  The paused state is recoverable: in a state with status playing   *)
(* and no deadline armed because every seat is disconnected, every         *)
(* successful handlePlayerReconnect arms a deadline for the current seat   *)
(* and invokes the turn-started hook, so that the turn eventually          *)
(* advances again.  The code arms the deadline and invokes the hook, but   *)
(* the turn need not advance: a drawCard that is rejected for a playable   *)
(* card or a drawn card has already cleared the deadline.                  *)
(***************************************************************************)
C13_ReconnectArms ==
    (paused /\ ~crashed) =>
        \A oldPlayerId \in SocketIds, newPlayerId \in SocketIds,
           name \in PlayerNames :
            LET res == handlePlayerReconnect(Game, oldPlayerId, newPlayerId, name)
            IN  res.success =>
                    /\ res.this.turnExpiresAt # NULL
                    /\ res.this.turnTimer # NULL
                    /\ res.this.gameState.currentPlayerIndex =
                          gameState.currentPlayerIndex
                    /\ invoked(res.this, "onTurnStart",
                               gameState.currentPlayerIndex)

C13_PauseRecoverable ==
    /\ []C13_ReconnectArms
    /\ resumed # NULL ~> (resumed = NULL \/ atBound)


(***************************************************************************)
(* C14: handlePlayerDisconnect changes nothing but the disconnected flag,  *)
(* the name and the originalName of the seat of the given socket: the      *)
(* current player index, the direction, every hand, the deck, the discard  *)
(* pile, the flags hasDrawnPlayableCard and waitingForUno, the deadline    *)
(* and the pending callbacks are as before, whichever seat is the target   *)
(* (the active one included) and whatever the call returns.                *)
(***************************************************************************)
C14_DisconnectFrame ==
    ~crashed =>
        \A playerId \in SocketIds :
            LET res == handlePlayerDisconnect(Game, playerId)
                g == res.this.gameState
                target == findIndex(gameState.players, playerId)
                restored(i) == [g.players[i] EXCEPT
                                  !.disconnected = gameState.players[i].disconnected,
                                  !.name = gameState.players[i].name,
                                  !.originalName = gameState.players[i].originalName]
            IN  /\ res.this.turnExpiresAt = turnExpiresAt
                /\ res.this.turnTimer = turnTimer
                /\ res.this.timeouts = timeouts
                /\ res.this.crashed = crashed
                /\ Len(g.players) = Len(gameState.players)
                /\ [g EXCEPT !.players = gameState.players] = gameState
                /\ \A i \in 1..Len(g.players) :
                      /\ restored(i) = gameState.players[i]
                      /\ i # target + 1 => g.players[i] = gameState.players[i]

\* the active seat has been disconnected during its turn and its deadline
\* is still running
C14_Witness ==
    /\ gameState.status = "playing"
    /\ gameState.players[gameState.currentPlayerIndex + 1].disconnected
    /\ turnExpiresAt # NULL
    /\ turnTimer # NULL

(***************************************************************************)
(* C15: handlePlayerReconnect called while a deadline is armed leaves      *)
(* turnExpiresAt and the running timer as they are and does not invoke the *)
(* turn-started hook, whichever seat reconnects: the remaining time of the *)
(* turn is not replaced by a full turnTimeLimit.                           *)
(***************************************************************************)
C15_ReconnectKeepsDeadline ==
    (~crashed /\ turnExpiresAt # NULL) =>
        \A oldPlayerId \in SocketIds, newPlayerId \in SocketIds, name \in PlayerNames :
            LET res == handlePlayerReconnect(Game, oldPlayerId, newPlayerId, name)
            IN  /\ res.this.turnExpiresAt = turnExpiresAt
                /\ res.this.turnTimer = turnTimer
                /\ res.this.timeouts = timeouts
                /\ \A seat \in Seats : ~invoked(res.this, "onTurnStart", seat)

\* from the disconnect of the active seat with its deadline running (the
\* callback that starts the deadline of the turn has run) until the end of
\* its turn, the reconnect included, the deadline stays armed and its
\* remaining time never grows
C15_DeadlineOutlivesDisconnect ==
    (/\ ~crashed
     /\ gameState.status = "playing"
     /\ gameState.players[gameState.currentPlayerIndex + 1].disconnected
     /\ turnExpiresAt # NULL
     /\ timeouts = <<>>
     /\ ~crashed'
     /\ gameState'.status = "playing"
     /\ gameState'.currentPlayerIndex = gameState.currentPlayerIndex) =>
        /\ turnExpiresAt' # NULL
        /\ turnExpiresAt' <= turnExpiresAt

C15_NoFreshDeadline ==
    /\ []C15_ReconnectKeepsDeadline
    /\ [][C15_DeadlineOutlivesDisconnect]_vars

\* the active seat is disconnected with part of its deadline used up, and
\* its reconnection on a new socket succeeds
C15_Witness ==
    /\ ~crashed
    /\ gameState.status = "playing"
    /\ gameState.players[gameState.currentPlayerIndex + 1].disconnected
    /\ turnExpiresAt # NULL
    /\ turnExpiresAt < turnTimeLimit
    /\ LET res == handlePlayerReconnect(Game, activeId, sockets + 1,
                                        playerName(gameState.currentPlayerIndex))
       IN  /\ sockets + 1 \in SocketIds
           /\ res.success
           /\ ~res.this.gameState.players[gameState.currentPlayerIndex + 1].disconnected
           /\ res.this.gameState.players[gameState.currentPlayerIndex + 1].id = sockets + 1

(***************************************************************************)
(* C16: every turn is bounded by the timer.  In every reachable state in   *)
(* which the game is playing and some seat is not disconnected, a deadline *)
(* is armed or a deferred callback that will arm one is pending; this is   *)
(* what makes the active seat change, or the game finish, by the timer     *)
(* callbacks alone when the clients send nothing that succeeds.            *)
(***************************************************************************)
C16_DeadlineOrRearmPending ==
    (/\ ~crashed
     /\ gameState.status = "playing"
     /\ connectedSeats(gameState) # {}) =>
        \/ turnExpiresAt # NULL /\ turnTimer # NULL
        \/ timeouts # <<>>

\* the results of the calls the socket playerId can make in this state
actionResults(playerId) ==
    {playCard(Game, playerId, cardIndex, chosenColor, r) :
        cardIndex \in 0..(Len(activeHand) - 1),
        chosenColor \in ChosenColors, r \in shuffleRandoms}
    \cup {drawCard(Game, playerId, r) : r \in shuffleRandoms}
    \cup {endTurn(Game, playerId), callUno(Game, playerId)}

\* the snapshot shows card contents of no seat but that of playerId
showsOnlyHandOf(snapshot, g, playerId) ==
    \A i \in 1..Len(g.players) :
        /\ snapshot.players[i].handSize = Len(g.players[i].hand)
        /\ g.players[i].id # playerId => snapshot.players[i].hand = <<>>

\* the state g with every card of the seats other than that of playerId
\* replaced by one and the same card
otherHandsReplaced(this, playerId, card) ==
    [this EXCEPT !.gameState.players =
        [i \in 1..Len(@) |->
            IF @[i].id = playerId THEN @[i]
            ELSE [@[i] EXCEPT !.hand = [k \in 1..Len(@) |-> card]]]]

(***************************************************************************)
(* C17: a snapshot contains the card contents of the requesting seat's     *)
(* hand at most.  getPublicState called with the id of a seat, with an id  *)
(* of no seat or without an id, and the gameState in the result of every   *)
(* successful action, show the hand of every seat other than the one of    *)
(* the caller as a count only; and replacing the cards in the other seats' *)
(* hands by other cards (sizes kept) does not change the snapshot.         *)
(***************************************************************************)
C17_OtherHandsRedacted ==
    ~crashed =>
        /\ \A playerId \in SocketIds \cup {NULL} :
              /\ showsOnlyHandOf(getPublicState(Game, playerId), gameState, playerId)
              /\ \A card \in Range(gameState.discardPile) :
                    getPublicState(otherHandsReplaced(Game, playerId, card), playerId)
                        = getPublicState(Game, playerId)
        /\ registered =>
              \A playerId \in openSockets :
                 \A res \in actionResults(playerId) :
                    (res.success /\ ~res.this.crashed) =>
                        showsOnlyHandOf(resultGameState(res.this),
                                        res.this.gameState, playerId)

\* the rule of the game: may `card' of `playerHand' be played
legal(card, topCard, currentColor, playerHand) ==
    IF card.color = "wild" /\ card.value = "draw4"
    THEN ~\E k \in 1..Len(playerHand) :
            /\ playerHand[k].color # "wild"
            /\ playerHand[k].color = currentColor
    ELSE IF card.color = "wild" THEN TRUE
    ELSE card.color = currentColor \/ card.value = topCard.value

wellFormed(hand) == \A k \in 1..Len(hand) : hand[k] # undefined

drawAmount(card) ==
    IF card.value = "draw4" THEN 4 ELSE IF card.value = "draw2" THEN 2 ELSE 0

(***************************************************************************)
(* C19: a successful play of a draw two (wild draw four) that neither wins *)
(* nor leaves the seat waiting to call UNO gives, within the call, exactly *)
(* 2 (4) cards to the next seat in direction and skips it: the active seat *)
(* is then two seats on, so the penalised seat cannot answer with a card   *)
(* of its own; the hand of the seat that played loses the card played and  *)
(* no other hand changes.                                                  *)
(***************************************************************************)
C19_DrawPenalty ==
    (~crashed /\ gameState.status = "playing") =>
        \A cardIndex \in 0..(Len(activeHand) - 1),
           chosenColor \in ChosenColors, r \in Randoms :
            LET seat == gameState.currentPlayerIndex
                penalised == seatAfter(gameState, 1)
                card == activeHand[cardIndex + 1]
                res == playCard(Game, activeId, cardIndex, chosenColor, r)
                after == res.this.gameState
            IN  (/\ res.success
                 /\ ~res.this.crashed
                 /\ card.value \in {"draw2", "draw4"}
                 /\ after.status # "finished"
                 /\ ~after.waitingForUno) =>
                    /\ Cardinality(cardsOf(handOf(after, penalised))) =
                          Cardinality(cardsOf(handOf(gameState, penalised)))
                              + drawAmount(card)
                    /\ Len(handOf(after, penalised)) =
                          Len(handOf(gameState, penalised)) + drawAmount(card)
                    /\ after.currentPlayerIndex = seatAfter(gameState, 2)
                    /\ after.direction = gameState.direction
                    /\ after.currentPlayerIndex # penalised
                    /\ handOf(after, seat) = removeAt(activeHand, cardIndex)
                    /\ \A other \in Seats \ {seat, penalised} :
                          handOf(after, other) = handOf(gameState, other)

(***************************************************************************)
(* C20: with three or more seats, a successful play that neither wins nor  *)
(* leaves the seat waiting to call UNO moves the turn as the card says: a  *)
(* skip makes the seat two seats on in direction the active one, a reverse *)
(* negates direction and makes the seat one seat on in the new direction   *)
(* the active one, a number card or a plain wild makes the next seat in    *)
(* direction the active one; direction changes on a reverse only.          *)
(***************************************************************************)
C20_SkipAndReverse ==
    (~crashed /\ gameState.status = "playing" /\ Len(gameState.players) >= 3) =>
        \A cardIndex \in 0..(Len(activeHand) - 1),
           chosenColor \in ChosenColors, r \in Randoms :
            LET card == activeHand[cardIndex + 1]
                res == playCard(Game, activeId, cardIndex, chosenColor, r)
                after == res.this.gameState
            IN  (/\ res.success
                 /\ ~res.this.crashed
                 /\ after.status # "finished"
                 /\ ~after.waitingForUno) =>
                    /\ card.value = "skip" =>
                          /\ after.currentPlayerIndex = seatAfter(gameState, 2)
                          /\ after.direction = gameState.direction
                    /\ card.value = "reverse" =>
                          /\ after.direction = 0 - gameState.direction
                          /\ after.currentPlayerIndex =
                                seatAfter([gameState EXCEPT
                                              !.direction = after.direction], 1)
                    /\ card.value \notin actionValues =>
                          /\ after.currentPlayerIndex = seatAfter(gameState, 1)
                          /\ after.direction = gameState.direction

\* a reverse has been played in a three-seat game: the direction is
\* negated and the seat before the one that played is the active one
C20_Witness ==
    /\ ~crashed
    /\ gameState.status = "playing"
    /\ Len(gameState.players) = 3
    /\ Len(gameState.discardPile) >= 2
    /\ gameState.topCard.value = "reverse"
    /\ gameState.direction = -1
    /\ timeouts = <<ANIMATION_DURATION>>

\* every card of the game, wherever it is
allCards(g) ==
    g.deck \o g.discardPile \o Concat([i \in 1..Len(g.players) |-> g.players[i].hand])

copies(s, card) == Cardinality({i \in 1..Len(s) : s[i] = card})

sameMultiset(s, t) ==
    \A card \in Range(s) \cup Range(t) : copies(s, card) = copies(t, card)

(***************************************************************************)
(* C21: a successful drawCard moves exactly one card from the deck (the    *)
(* discard pile below its top card reshuffled into it first when the deck  *)
(* is empty) to the end of the caller's hand and changes no other hand.    *)
(* If the card drawn may be played, hasDrawnPlayableCard is true, the      *)
(* active seat is the same and another drawCard is rejected; if not, the   *)
(* next seat in direction is the active one and hasDrawnPlayableCard,      *)
(* hasPlayedCardThisTurn and waitingForUno are false.                      *)
(***************************************************************************)
C21_DrawCard ==
    (~crashed /\ gameState.status = "playing") =>
        \A playerId \in SocketIds, r \in Randoms :
            LET res == drawCard(Game, playerId, r)
                after == res.this.gameState
                seat == findIndex(gameState.players, playerId)
                hand == handOf(after, seat)
                drawnCard == hand[Len(hand)]
                n == Len(gameState.deck)
                m == Len(gameState.discardPile)
            IN  (res.success /\ ~res.this.crashed) =>
                    /\ seat = gameState.currentPlayerIndex
                    /\ drawnCard # undefined
                    /\ hand = Append(handOf(gameState, seat), drawnCard)
                    /\ \A other \in Seats \ {seat} :
                          handOf(after, other) = handOf(gameState, other)
                    /\ sameMultiset(allCards(gameState), allCards(after))
                    /\ after.topCard = gameState.topCard
                    /\ after.currentColor = gameState.currentColor
                    /\ after.direction = gameState.direction
                    /\ n > 0 =>
                          /\ drawnCard = gameState.deck[n]
                          /\ after.deck = SubSeq(gameState.deck, 1, n - 1)
                          /\ after.discardPile = gameState.discardPile
                    /\ n = 0 =>
                          /\ m >= 2
                          /\ Len(after.deck) = m - 2
                          /\ after.discardPile = <<gameState.discardPile[m]>>
                    /\ IF canPlayCard(drawnCard, after.topCard,
                                      after.currentColor, hand)
                       THEN /\ after.hasDrawnPlayableCard
                            /\ after.currentPlayerIndex = seat
                            /\ \A again \in Randoms :
                                  ~drawCard(res.this, playerId, again).success
                       ELSE /\ after.currentPlayerIndex = seatAfter(gameState, 1)
                            /\ ~after.hasDrawnPlayableCard
                            /\ ~after.hasPlayedCardThisTurn
                            /\ ~after.waitingForUno

\* a seat has drawn a card that it may play: the card is the last of its
\* hand and the seat is deciding
C21_Witness ==
    /\ ~crashed
    /\ gameState.status = "playing"
    /\ gameState.hasDrawnPlayableCard
    /\ canPlayCard(activeHand[Len(activeHand)], gameState.topCard,
                   gameState.currentColor, activeHand)
    /\ Len(activeHand) > cardsPerPlayer
    /\ turnExpiresAt # NULL

\* the socket playerId is that of the active seat
isActiveSeat(g, playerId) ==
    findIndex(g.players, playerId) = g.currentPlayerIndex

(***************************************************************************)
(* C22: endTurn succeeds iff the game is playing, the caller is the active *)
(* seat and hasDrawnPlayableCard is true; a successful endTurn clears      *)
(* hasDrawnPlayableCard, makes the next seat in direction the active one   *)
(* and moves no card.                                                      *)
(***************************************************************************)
C22_EndTurn ==
    ~crashed =>
        \A playerId \in SocketIds :
            LET res == endTurn(Game, playerId)
                after == res.this.gameState
            IN  /\ res.success <=>
                      /\ gameState.status = "playing"
                      /\ isActiveSeat(gameState, playerId)
                      /\ gameState.hasDrawnPlayableCard
                /\ res.success =>
                      /\ ~after.hasDrawnPlayableCard
                      /\ after.currentPlayerIndex = seatAfter(gameState, 1)
                      /\ after.direction = gameState.direction
                      /\ sameCards(gameState, after)
                      /\ after.topCard = gameState.topCard
                /\ ~res.success => res.this = Game

\* the active seat has drawn a card it may play and its endTurn succeeds
C22_Witness ==
    /\ ~crashed
    /\ gameState.status = "playing"
    /\ gameState.hasDrawnPlayableCard
    /\ endTurn(Game, activeId).success
    /\ endTurn(Game, activeId).this.gameState.currentPlayerIndex
           # gameState.currentPlayerIndex

finished == gameState.status = "finished"

\* a call or callback that arms no deadline and invokes neither the
\* turn-started nor the turn-expired hook
armsNothing(this) ==
    /\ this.turnExpiresAt = NULL
    /\ this.turnTimer = NULL
    /\ \A seat \in Seats :
          /\ ~invoked(this, "onTurnStart", seat)
          /\ ~invoked(this, "onTurnTimeout", seat)

\* in a finished game every action is rejected and changes nothing, the
\* timer and deferred callbacks change nothing, a reconnect arms nothing
C24_FinishedRejects ==
    (finished /\ ~crashed) =>
        /\ turnExpiresAt = NULL
        /\ turnTimer = NULL
        /\ \A playerId \in SocketIds :
              /\ \A res \in actionResults(playerId) :
                    ~res.success /\ res.this = Game
              /\ handlePlayerDisconnect(Game, playerId).this = Game
              /\ \A newPlayerId \in SocketIds, name \in PlayerNames :
                    LET res == handlePlayerReconnect(Game, playerId, newPlayerId, name)
                    IN  /\ armsNothing(res.this)
                        /\ sameCards(res.this.gameState, gameState)
                        /\ res.this.gameState.status = "finished"
        /\ \A r \in Randoms : handleTurnTimeout(Game, r) = Game
        /\ startTurnTimer(Game) = Game

\* no step of a finished game changes a card, the active seat, the winner
\* or the status, or arms a deadline
C24_FinishedStays ==
    finished =>
        /\ finished'
        /\ sameCards(gameState, gameState')
        /\ gameState'.topCard = gameState.topCard
        /\ gameState'.currentPlayerIndex = gameState.currentPlayerIndex
        /\ gameState'.direction = gameState.direction
        /\ gameState'.winner = gameState.winner
        /\ turnExpiresAt' = NULL
        /\ turnTimer' = NULL

(***************************************************************************)
(* C24: a finished game is inert.  playCard, drawCard, endTurn and callUno *)
(* are rejected, an expiry of the timer and a deferred callback that is    *)
(* still pending do nothing, a reconnect arms no deadline; no deadline is  *)
(* armed and no turn-started or turn-expired hook is invoked any more; and *)
(* hands, deck, discard pile, current player index and winner stay as they *)
(* are.                                                                    *)
(***************************************************************************)
C24_FinishedIsInert ==
    /\ []C24_FinishedRejects
    /\ [][C24_FinishedStays]_vars

\* the game was won while a deferred callback was pending, and the callback
\* is now due
C24_Witness ==
    /\ finished
    /\ ~crashed
    /\ timeouts # <<>>
    /\ Head(timeouts) = 0

(***************************************************************************)
(* C25: cards are immutable values.  The multiset of the cards in the      *)
(* deck, the discard pile and the hands is at all times the multiset that  *)
(* createDeck built, whatever card drawFirstCard reveals and however often *)
(* the discard pile is reshuffled into the deck.                           *)
(***************************************************************************)
C25_CardsImmutable == sameMultiset(allCards(gameState), createDeck)

\* nothing is left to draw: the deck is empty and reshuffleDeck has no card
\* below the top of the discard pile to refill it with
exhausted(g) == Len(g.deck) = 0 /\ Len(g.discardPile) <= 1

noHandGrows(g, h) ==
    \A i \in 1..Len(g.players) : Len(h.players[i].hand) <= Len(g.players[i].hand)

allHandsWellFormed(g) ==
    \A i \in 1..Len(g.players) : wellFormed(g.players[i].hand)

(***************************************************************************)
(* C26: a draw that finds the deck empty and at most one card on the       *)
(* discard pile aborts.  Whether the draw is a drawCard, the penalty of a  *)
(* draw two or wild draw four, or the penalty of a timeout, no hand grows  *)
(* by it and no hand ever holds an element that is not a card.             *)
(***************************************************************************)
C26_ExhaustedDrawAborts ==
    /\ allHandsWellFormed(gameState)
    /\ (~crashed /\ gameState.status = "playing") =>
          /\ \A r \in Randoms :
                LET res == drawCard(Game, activeId, r)
                IN  /\ allHandsWellFormed(res.this.gameState)
                    /\ exhausted(gameState) =>
                          noHandGrows(gameState, res.this.gameState)
          /\ \A r \in Randoms :
                LET after == handleTurnTimeout(Game, r).gameState
                IN  /\ allHandsWellFormed(after)
                    /\ exhausted(gameState) => noHandGrows(gameState, after)
          /\ \A cardIndex \in 0..(Len(activeHand) - 1),
                chosenColor \in ChosenColors, r \in Randoms :
                allHandsWellFormed(
                    playCard(Game, activeId, cardIndex, chosenColor, r).this.gameState)

\* how many times the call or callback has invoked the hook
invocations(this, hook) ==
    Cardinality({i \in 1..Len(this.hooks) : this.hooks[i].hook = hook})

(***************************************************************************)
(* C27: an expiry of the turn timer that changes the state of the game (a  *)
(* penalty, another active seat) invokes the turn-expired hook exactly     *)
(* once, for the seat that timed out, and the state-change hook, before    *)
(* handleTurnTimeout returns; also when the game pauses because the seats  *)
(* that follow are disconnected.                                           *)
(***************************************************************************)
C27_TimeoutHooks ==
    timerExpires =>
        \A r \in Randoms :
            LET after == handleTurnTimeout(Game, r)
            IN  after.gameState # gameState =>
                    /\ invocations(after, "onTurnTimeout") = 1
                    /\ invoked(after, "onTurnTimeout", gameState.currentPlayerIndex)
                    /\ invocations(after, "onStateChange") >= 1

\* the name the seat had before it was disconnected
preDisconnectName(p) ==
    IF p.originalName # <<>> THEN p.originalName ELSE replaceSuffix(p.name)

\* the seat handlePlayerReconnect is to reattach: the seat of the handle
\* oldPlayerId if there is one, else the first seat of that name, else -1
seatToReattach(g, oldPlayerId, name) ==
    IF findIndex(g.players, oldPlayerId) # -1
    THEN findIndex(g.players, oldPlayerId)
    ELSE IF \E i \in 1..Len(g.players) : preDisconnectName(g.players[i]) = name
    THEN (CHOOSE i \in 1..Len(g.players) :
             /\ preDisconnectName(g.players[i]) = name
             /\ \A j \in 1..(i - 1) : preDisconnectName(g.players[j]) # name) - 1
    ELSE -1

deferredDue == ~crashed /\ timeouts # <<>> /\ Head(timeouts) = 0

\* the callback of setTimeout(() => this.startTurnTimer(), delay)
deferredCallback(this) == startTurnTimer([this EXCEPT !.timeouts = Tail(@)])

\* an action that schedules a deferred callback has cancelled the deadline:
\* a deadline found by the callback was armed after it was scheduled
C29_CancelledBeforeDeferring ==
    [][Len(timeouts') > Len(timeouts) =>
          turnExpiresAt' = NULL /\ turnTimer' = NULL]_vars

(***************************************************************************)
(* C29: a deferred callback never replaces or extends a deadline armed     *)
(* after it was scheduled.  When the callback of playCard, of a drawCard   *)
(* of a card that cannot be played, of endTurn, of callUno or of           *)
(* drawFirstCard runs and finds a deadline, armed in the meantime because  *)
(* a seat has acted during the delay, it leaves turnExpiresAt and the      *)
(* running timer as they are, so that no turn is granted more than         *)
(* turnTimeLimit.                                                          *)
(***************************************************************************)
C29_StaleCallbackKeepsDeadline ==
    (deferredDue /\ turnExpiresAt # NULL) =>
        /\ deferredCallback(Game).turnExpiresAt = turnExpiresAt
        /\ deferredCallback(Game).turnTimer = turnTimer

\* the Game object after each call or callback that can run in this state
stepResults ==
    UNION {{res.this : res \in actionResults(playerId)} : playerId \in SocketIds}
    \cup {handlePlayerDisconnect(Game, playerId).this : playerId \in SocketIds}
    \cup {handlePlayerReconnect(Game, oldPlayerId, newPlayerId, name).this :
             oldPlayerId \in SocketIds, newPlayerId \in SocketIds,
             name \in PlayerNames}
    \cup (IF timerExpires THEN {handleTurnTimeout(Game, r) : r \in Randoms} ELSE {})
    \cup (IF deferredDue THEN {deferredCallback(Game)} ELSE {})

\* whenever a call or callback arms a deadline, it announces it with the
\* turn-started hook for the seat that is active when it returns, and for
\* no other seat
C30_DeadlineNamesActiveSeat ==
    (~crashed /\ gameState.status = "playing") =>
        \A this \in stepResults :
            ~this.crashed =>
                /\ \A seat \in Seats :
                      invoked(this, "onTurnStart", seat) =>
                          /\ seat = this.gameState.currentPlayerIndex
                          /\ this.turnExpiresAt # NULL
                /\ (/\ this.turnExpiresAt # NULL
                    /\ \/ this.turnExpiresAt # turnExpiresAt
                       \/ this.gameState.currentPlayerIndex
                              # gameState.currentPlayerIndex) =>
                      invoked(this, "onTurnStart", this.gameState.currentPlayerIndex)

\* the penalty of an expiry goes to the active seat and to no other
C30_PenaltyToActiveSeat ==
    timerExpires =>
        \A r \in Randoms, other \in Seats \ {gameState.currentPlayerIndex} :
            handOf(handleTurnTimeout(Game, r).gameState, other)
                = handOf(gameState, other)

\* no deadline outlives the turn it was armed for: a step that changes the
\* active seat leaves no deadline, or is the expiry itself, which arms a
\* full one for the new active seat
C30_NoDeadlineAcrossTurns ==
    (/\ ~crashed'
     /\ gameState.status = "playing"
     /\ gameState'.currentPlayerIndex # gameState.currentPlayerIndex) =>
        \/ turnExpiresAt' = NULL /\ turnTimer' = NULL
        \/ timerExpires /\ turnExpiresAt' = turnTimeLimit /\ turnTimer' = turnTimeLimit

(***************************************************************************)
(* C30: no stale timer fires against another seat.  The active seat never  *)
(* changes while the deadline armed for the seat before it is pending, and *)
(* every deadline is announced for the seat that is active, so the penalty *)
(* of an expiry goes to the seat named in the latest turn-started          *)
(* notification.                                                           *)
(***************************************************************************)
C30_NoStaleTimer ==
    /\ [](C30_DeadlineNamesActiveSeat /\ C30_PenaltyToActiveSeat)
    /\ [][C30_NoDeadlineAcrossTurns]_vars

\* a card has been played, the deadline armed for the seat that became
\* active after it has run out, and the expiry penalises that seat
C30_Witness ==
    /\ timerExpires
    /\ gameState.status = "playing"
    /\ Len(gameState.discardPile) >= 2
    /\ turnExpiresAt = 0
    /\ ~gameState.waitingForUno
    /\ \A r \in Randoms :
          Len(handOf(handleTurnTimeout(Game, r).gameState,
                     gameState.currentPlayerIndex)) > Len(activeHand)

\* the durations the code arms a deadline with: the full one, and what is
\* left of the running one
armingDurations ==
    {turnTimeLimit} \cup (IF turnExpiresAt # NULL THEN {turnExpiresAt} ELSE {})

\* the expiry callback is pending exactly when a deadline is set, and is due
\* when the deadline is
C31_PendingIffDeadline ==
    /\ turnTimer # NULL <=> turnExpiresAt # NULL
    /\ turnTimer = turnExpiresAt

\* cancelling twice is cancelling once, and cancelling when nothing is armed
\* changes nothing
C31_CancelIdempotent ==
    /\ clearTurnTimer(clearTurnTimer(Game)) = clearTurnTimer(Game)
    /\ (turnTimer = NULL /\ turnExpiresAt = NULL) => clearTurnTimer(Game) = Game

\* arming replaces whatever was pending by one callback due at the new
\* deadline, and invokes the turn-started hook once, for the active seat
C31_ArmingReplaces ==
    \A duration \in armingDurations :
        LET armed == startTurnTimerWithDuration(Game, duration)
        IN  /\ armed = startTurnTimerWithDuration(clearTurnTimer(Game), duration)
            /\ armed.turnTimer = armed.turnExpiresAt
            /\ armed.turnExpiresAt # NULL =>
                  /\ armed.turnExpiresAt = duration
                  /\ invocations(armed, "onTurnStart") = 1
                  /\ invoked(armed, "onTurnStart", gameState.currentPlayerIndex)
            /\ armed.turnExpiresAt = NULL => invocations(armed, "onTurnStart") = 0

\* a call or callback invokes the turn-started hook at most once, for the
\* seat that is active when it returns, and only with a deadline armed; and
\* it leaves no deadline other than the one it found without invoking it
C31_HookPerArming ==
    ~crashed =>
        \A this \in stepResults :
            ~this.crashed =>
                /\ invocations(this, "onTurnStart") <= 1
                /\ invocations(this, "onTurnStart") = 1 =>
                      /\ this.turnExpiresAt # NULL
                      /\ invoked(this, "onTurnStart",
                                 this.gameState.currentPlayerIndex)
                /\ (this.turnExpiresAt # NULL
                    /\ this.turnExpiresAt # turnExpiresAt) =>
                      invocations(this, "onTurnStart") = 1

(***************************************************************************)
(* C31: the game holds a single deadline.  The expiry callback is pending  *)
(* exactly when turnExpiresAt is not null; arming cancels what was pending *)
(* and invokes the turn-started hook once with playerIndex =               *)
(* currentPlayerIndex; clearTurnTimer is idempotent and changes nothing    *)
(* when nothing is armed.                                                  *)
(***************************************************************************)
C31_SingleDeadline ==
    /\ C31_PendingIffDeadline
    /\ C31_CancelIdempotent
    /\ C31_ArmingReplaces
    /\ C31_HookPerArming

\* a deadline is running, partly used, and a drawCard of the active seat
\* re-arms it
C31_Witness ==
    /\ ~crashed
    /\ gameState.status = "playing"
    /\ turnExpiresAt # NULL
    /\ turnExpiresAt < turnTimeLimit
    /\ \E r \in shuffleRandoms :
          LET res == drawCard(Game, activeId, r)
          IN  /\ res.success
              /\ res.this.turnExpiresAt = turnExpiresAt
              /\ invoked(res.this, "onTurnStart", gameState.currentPlayerIndex)

\* the results of the calls a socket can make, card indexes out of range
\* included
callResults(playerId) ==
    actionResults(playerId)
    \cup {playCard(Game, playerId, cardIndex, chosenColor, r) :
             cardIndex \in {-1, Len(activeHand)},
             chosenColor \in ChosenColors, r \in shuffleRandoms}

(***************************************************************************)
(* C32: a call of playCard, drawCard, endTurn or callUno that returns      *)
(* success = false leaves the gameState, turnExpiresAt, the pending expiry *)
(* callback and the deferred callbacks exactly as they were; a drawCard    *)
(* rejected because the caller holds a playable card, or has already drawn *)
(* one, leaves the running deadline armed with the same turnExpiresAt.     *)
(***************************************************************************)
C32_RejectionChangesNothing ==
    ~crashed =>
        \A playerId \in SocketIds :
            \A res \in callResults(playerId) :
                (~res.success /\ ~res.this.crashed) => res.this = Game

\* the expiry the call or callback has given to the turn-started hook
announcedExpiries(this) ==
    {this.hooks[i].expiresAt :
        i \in {k \in 1..Len(this.hooks) : this.hooks[k].hook = "onTurnStart"}}

(***************************************************************************)
(* C33: when drawCard draws a playable card while a deadline D is armed,   *)
(* the deadline of the decision window expires no later than D: it is      *)
(* armed with what remains of D, never with the full turnTimeLimit, the    *)
(* expiry callback is due at that time, and the turn-started hook is       *)
(* invoked once, with that same expiry, for the seat that drew.            *)
(***************************************************************************)
C33_DrawKeepsDeadline ==
    (~crashed /\ turnExpiresAt # NULL) =>
        \A playerId \in SocketIds, r \in shuffleRandoms :
            LET res == drawCard(Game, playerId, r)
            IN  (res.success /\ res.this.gameState.hasDrawnPlayableCard) =>
                    /\ res.this.turnExpiresAt # NULL
                    /\ res.this.turnExpiresAt <= turnExpiresAt
                    /\ res.this.turnExpiresAt = turnExpiresAt
                    /\ res.this.turnTimer = res.this.turnExpiresAt
                    /\ invocations(res.this, "onTurnStart") = 1
                    /\ invoked(res.this, "onTurnStart",
                               gameState.currentPlayerIndex)
                    /\ announcedExpiries(res.this) = {res.this.turnExpiresAt}

\* part of the deadline of the turn has run, the active seat holds nothing
\* it can play, and the card it draws can be played
C33_Witness ==
    /\ ~crashed
    /\ gameState.status = "playing"
    /\ turnExpiresAt # NULL
    /\ turnExpiresAt > 0
    /\ turnExpiresAt < turnTimeLimit
    /\ ~hasPlayableCard(activeHand, gameState.topCard, gameState.currentColor)
    /\ \E r \in shuffleRandoms :
          LET res == drawCard(Game, activeId, r)
          IN  /\ res.success
              /\ res.this.gameState.hasDrawnPlayableCard
              /\ announcedExpiries(res.this) = {turnExpiresAt}

\* the effect of the action card on top of the discard pile of `before',
\* played by its active seat, is in force in `after': the direction is
\* flipped by a reverse, the next seat is skipped by a skip, the next seat
\* has drawn 2 or 4 cards and is skipped by a draw two or a wild draw four
effectApplied(before, after) ==
    LET card == before.topCard
        flipped == [before EXCEPT !.direction = 0 - before.direction]
        nextSeat == seatAfter(before, 1)
    IN  IF card.value = "reverse"
        THEN /\ after.direction = 0 - before.direction
             /\ after.currentPlayerIndex = seatAfter(flipped, 1)
        ELSE /\ after.direction = before.direction
             /\ after.currentPlayerIndex = seatAfter(before, 2)
             /\ Len(handOf(after, nextSeat))
                   = Len(handOf(before, nextSeat)) + drawAmount(card)

(***************************************************************************)
(* C34: the effect of a played action card is never dropped.  In a game of *)
(* three or more seats, when the active seat has played a skip, a reverse, *)
(* a draw two or a wild draw four down to one card and waits to call UNO,  *)
(* the callUno or the expiry of the timer that ends the wait applies the   *)
(* effect of the card: the direction is flipped, or the next seat is       *)
(* skipped, having drawn 2 or 4 cards for a draw two or a wild draw four.  *)
(***************************************************************************)
C34_EffectNotDropped ==
    (/\ ~crashed
     /\ gameState.status = "playing"
     /\ gameState.waitingForUno
     /\ Len(gameState.players) >= 3
     /\ gameState.topCard.value \in actionValues
     /\ connectedSeats(gameState) = Seats) =>
        /\ LET res == callUno(Game, activeId)
           IN  res.success => effectApplied(gameState, res.this.gameState)
        /\ timerExpires =>
              \A r \in shuffleRandoms :
                 effectApplied(gameState, handleTurnTimeout(Game, r).gameState)

\* the call or callback that leads from the state to `this' has made the
\* active seat play a card or has made its hand grow
playedOrGrew(this) ==
    \/ Len(handOf(this.gameState, gameState.currentPlayerIndex)) < Len(activeHand)
    \/ Len(handOf(this.gameState, gameState.currentPlayerIndex)) > Len(activeHand)

\* the active seat has played a card or drawn one earlier in its turn
actedThisTurn ==
    \/ gameState.hasPlayedCardThisTurn
    \/ gameState.hasDrawnPlayableCard

\* callUno is accepted in the waiting-for-UNO state only
C35_DeclarationOnlyWhenWaiting ==
    (~crashed /\ ~gameState.waitingForUno) =>
        \A playerId \in SocketIds : ~callUno(Game, playerId).success

\* a call or an expiry of the timer makes another seat the active one only
\* if the active seat has played or drawn in this turn
C35_PassAfterPlayOrDraw ==
    (~crashed /\ gameState.status = "playing") =>
        /\ \A playerId \in SocketIds :
              \A res \in callResults(playerId) :
                 (/\ ~res.this.crashed
                  /\ res.this.gameState.currentPlayerIndex
                        # gameState.currentPlayerIndex) =>
                     actedThisTurn \/ playedOrGrew(res.this)
        /\ timerExpires =>
              \A r \in shuffleRandoms :
                 LET this == handleTurnTimeout(Game, r)
                 IN  this.gameState.currentPlayerIndex
                        # gameState.currentPlayerIndex =>
                         actedThisTurn \/ playedOrGrew(this)

(***************************************************************************)
(* C35: the turn passes from the active seat to another seat only after    *)
(* the active seat has, in that turn, played a card or seen its hand grow  *)
(* by a card (a draw or the penalty of a timeout); callUno is accepted     *)
(* only while waitingForUno is true, so a seat that starts its turn with   *)
(* one card cannot pass the turn for free by calling UNO.                  *)
(***************************************************************************)
C35_NoFreePass ==
    /\ C35_PassAfterPlayOrDraw
    /\ C35_DeclarationOnlyWhenWaiting

\* waitingForUno: the game is playing, the active seat holds one card, has
\* played a card in this turn and is not deciding on a drawn card
C36_WaitingForUno ==
    gameState.waitingForUno =>
        /\ gameState.status = "playing"
        /\ Len(activeHand) = 1
        /\ gameState.hasPlayedCardThisTurn
        /\ ~gameState.hasDrawnPlayableCard

\* hasDrawnPlayableCard: the active seat holds two cards or more, one of
\* which at least can be played
C36_HasDrawnPlayableCard ==
    gameState.hasDrawnPlayableCard =>
        /\ Len(activeHand) >= 2
        /\ \E k \in 1..Len(activeHand) :
              /\ activeHand[k] # undefined
              /\ legal(activeHand[k], gameState.topCard, gameState.currentColor,
                       activeHand)

\* waitingForUno becomes true by a playCard of the active seat only, and
\* hasPlayedCardThisTurn is false at the start of a turn
C36_WaitsAfterOwnPlay ==
    /\ (~gameState.waitingForUno /\ gameState'.waitingForUno) =>
          /\ gameState'.currentPlayerIndex = gameState.currentPlayerIndex
          /\ gameState'.hasPlayedCardThisTurn
          /\ gameState'.topCard \in Range(activeHand)
          /\ Len(handOf(gameState', gameState.currentPlayerIndex))
                = Len(activeHand) - 1
    /\ gameState'.currentPlayerIndex # gameState.currentPlayerIndex =>
          /\ ~gameState'.hasPlayedCardThisTurn
          /\ ~gameState'.waitingForUno

(***************************************************************************)
(* C36: the flags of the turn are consistent in every reachable state.     *)
(* waitingForUno implies status = playing, one card in the hand of the     *)
(* active seat, hasPlayedCardThisTurn true and hasDrawnPlayableCard false; *)
(* hasDrawnPlayableCard implies that the active seat holds at least two    *)
(* cards, one of which is legal to play; and waitingForUno is never true   *)
(* for a seat that has not played a card in its current turn.              *)
(***************************************************************************)
C36_SubStateConsistency ==
    /\ [](C36_WaitingForUno /\ C36_HasDrawnPlayableCard)
    /\ [][C36_WaitsAfterOwnPlay]_vars

\* the active seat has drawn a card it can play and holds two cards; it
\* plays one of them and then waits to call UNO
C36_Witness ==
    /\ ~crashed
    /\ gameState.hasDrawnPlayableCard
    /\ Len(activeHand) = 2
    /\ \E cardIndex \in 0..1, chosenColor \in ChosenColors, r \in shuffleRandoms :
          LET res == playCard(Game, activeId, cardIndex, chosenColor, r)
          IN  /\ res.success
              /\ res.this.gameState.waitingForUno
              /\ ~res.this.gameState.hasDrawnPlayableCard

\* the most cards one call draws: the penalty of a wild draw four
MaxDraws == 4

\* the states a draw of a call or callback can find: the state of the game
\* after none to three cards of the call have been drawn
drawStates ==
    {drawManyInto(gameState, seat, k, r) :
        seat \in Seats, k \in 0..(MaxDraws - 1), r \in Randoms}

\* the cards of the sequence s but the last
butLast(s) == SubSeq(s, 1, Len(s) - 1)

\* the top card is the last card of the discard pile
C37_TopCardOnTop ==
    gameState.status # "dealing" =>
        /\ gameState.discardPile # <<>>
        /\ gameState.topCard = gameState.discardPile[Len(gameState.discardPile)]

\* a draw from an empty deck with two cards or more discarded reshuffles, a
\* draw from a deck that is not empty does not
C37_ReshuffleOfDraw ==
    (~crashed /\ gameState.status = "playing") =>
        \A g \in drawStates, seat \in Seats, r \in Randoms :
            LET shuffled == reshuffleDeck(g, r)
                after == drawInto(g, seat, r)
            IN  /\ (Len(g.deck) = 0 /\ Len(g.discardPile) >= 2) =>
                      /\ shuffled.discardPile = <<g.topCard>>
                      /\ sameMultiset(shuffled.deck, butLast(g.discardPile))
                      /\ shuffled = [g EXCEPT !.deck = shuffled.deck,
                                              !.discardPile = <<g.topCard>>]
                      /\ after.discardPile = <<g.topCard>>
                      /\ after.deck = butLast(shuffled.deck)
                      /\ handOf(after, seat)
                            = Append(handOf(g, seat),
                                     shuffled.deck[Len(shuffled.deck)])
                      /\ after.topCard = g.topCard
                      /\ after.currentColor = g.currentColor
                /\ Len(g.deck) > 0 =>
                      /\ after.discardPile = g.discardPile
                      /\ after.deck = butLast(g.deck)

\* a step that takes cards from the discard pile has first drawn every card
\* of the deck, and leaves the top card alone on the pile
C37_ReshuffleInStep ==
    (gameState.status = "playing"
     /\ Len(gameState'.discardPile) < Len(gameState.discardPile)) =>
        /\ gameState'.discardPile = <<gameState'.topCard>>
        /\ \A i \in 1..Len(gameState.deck) :
              \E seat \in Seats :
                 gameState.deck[i] \in Range(handOf(gameState', seat))

(***************************************************************************)
(* C37: reshuffle.  When a card must be drawn, the deck is empty and the   *)
(* discard pile holds at least two cards, then the discard pile becomes    *)
(* [previous topCard], the deck from which the card is drawn is a          *)
(* permutation of the previous discard pile without its top card, and      *)
(* topCard and currentColor are unchanged; no reshuffle happens while the  *)
(* deck is not empty.                                                      *)
(***************************************************************************)
C37_Reshuffle ==
    /\ [](C37_TopCardOnTop /\ C37_ReshuffleOfDraw)
    /\ [][C37_ReshuffleInStep]_vars

\* the deck is empty, two cards or more are discarded, the active seat has
\* nothing to play, and its drawCard reshuffles
C37_Witness ==
    /\ ~crashed
    /\ gameState.status = "playing"
    /\ Len(gameState.deck) = 0
    /\ Len(gameState.discardPile) >= 3
    /\ \E r \in Randoms :
          LET res == drawCard(Game, activeId, r)
          IN  /\ res.success
              /\ res.this.gameState.discardPile = <<gameState.topCard>>
              /\ Len(res.this.gameState.deck) = Len(gameState.discardPile) - 2

\* what a client can send as chosenColor: a colour, nothing, or something
\* that is no colour
AnyChoice == Range(allColors) \cup {"null", "wild", "purple"}

\* after a successful playCard the played card is the top card and the
\* colour in play is its colour, or for a wild card the colour chosen, or
\* red when the choice is missing or is no colour
C38_ColorOfPlay ==
    (~crashed /\ gameState.status = "playing") =>
        \A playerId \in SocketIds, cardIndex \in 0..(Len(activeHand) - 1),
           chosenColor \in AnyChoice, r \in shuffleRandoms :
            LET res == playCard(Game, playerId, cardIndex, chosenColor, r)
                card == activeHand[cardIndex + 1]
                after == res.this.gameState
            IN  res.success =>
                    /\ after.topCard = card
                    /\ card.color # "wild" => after.currentColor = card.color
                    /\ (card.color = "wild" /\ chosenColor \in Range(allColors)) =>
                          after.currentColor = chosenColor
                    /\ (card.color = "wild" /\ chosenColor \notin Range(allColors)) =>
                          after.currentColor = "red"

\* once the first card is drawn the colour in play is a real colour, that of
\* the top card unless the top card is wild
C38_RealColor ==
    gameState.status # "dealing" =>
        /\ gameState.currentColor \in Range(allColors)
        /\ gameState.topCard.color # "wild" =>
              gameState.currentColor = gameState.topCard.color

(***************************************************************************)
(* C38: after every successful playCard currentColor is the colour of the  *)
(* played card if it has one, the chosen colour for a wild or a wild draw  *)
(* four when the choice is red, green, blue or yellow, and red when the    *)
(* choice is missing or invalid; so whenever the status is not dealing,    *)
(* currentColor is one of the four colours, never wild, and is the colour  *)
(* of topCard whenever topCard is not wild.                                *)
(***************************************************************************)
C38_CurrentColor ==
    /\ C38_ColorOfPlay
    /\ C38_RealColor

\* a wild card is on top, played with a choice that is no colour, and the
\* colour in play is the fallback
C38_Witness ==
    /\ ~crashed
    /\ gameState.status = "playing"
    /\ Len(gameState.discardPile) >= 2
    /\ gameState.topCard.color = "wild"
    /\ gameState.currentColor = "red"
    /\ \E cardIndex \in 0..(Len(activeHand) - 1) :
          /\ activeHand[cardIndex + 1].color = "wild"
          /\ LET res == playCard(Game, activeId, cardIndex, "purple", 0)
             IN  /\ res.success
                 /\ res.this.gameState.currentColor = "red"

\* the object with a deadline that has just run out
expired(this) == [this EXCEPT !.turnExpiresAt = 0, !.turnTimer = 0]

(***************************************************************************)
(* C39: the race guard.  An expiry callback that runs when no deadline is  *)
(* armed (turnExpiresAt is null because an action has just been handled)   *)
(* or when the status is not playing changes nothing: no card is drawn,    *)
(* the active seat and the flags are as they were, no deadline is armed    *)
(* and no hook is invoked.                                                 *)
(***************************************************************************)
C39_RaceGuard ==
    (~crashed /\ (turnExpiresAt = NULL \/ gameState.status # "playing")) =>
        \A r \in Randoms :
            LET after == handleTurnTimeout(Game, r)
            IN  /\ after = Game
                /\ after.gameState = gameState
                /\ after.hooks = <<>>
                /\ after.turnExpiresAt = NULL
                /\ after.turnTimer = NULL
                /\ after.timeouts = timeouts

\* an action has just cancelled the deadline of the turn and its deferred
\* callback is pending: an expiry handled now is ignored, one handled with
\* the deadline still set would have penalised the active seat
C39_Witness ==
    /\ ~crashed
    /\ gameState.status = "playing"
    /\ turnExpiresAt = NULL
    /\ timeouts # <<>>
    /\ Len(gameState.discardPile) >= 2
    /\ \A r \in Randoms :
          /\ handleTurnTimeout(Game, r) = Game
          /\ handleTurnTimeout(expired(Game), r).gameState # gameState
=============================================================================
